---- MODULE Spec2Model ----
(***************************************************************************)
(* Model of the operator shell (shell.c) and of the socket codec it uses   *)
(* (unix-socket-server.c shows the codec; the client side mirrors it).     *)
(*                                                                         *)
(* Bytes are naturals 0..255; every text (file names, input lines, output, *)
(* frames) is a sequence of bytes, so that C string functions can be       *)
(* modelled by what they do.  C indices are 0-based: At(s, i) is s[i].     *)
(***************************************************************************)
EXTENDS Integers, Sequences, FiniteSets, TLC

VARIABLES
    files,          \* base directory: file name -> "none" | "sock" | "file"
    dir_exists,     \* the base directory itself still exists
    inotify,        \* kernel queue of the inotify descriptor
    batch,          \* events read by the running base_dir_event / scan loop
    pc,             \* position of the single reactor thread
    running,        \* sh->running
    clients,        \* sh->clients: hash -> list of shell_driver_t
    input_buffer,   \* sh->input_buffer: [data, offset], user_size = Len(data)
    stdin,          \* bytes pending on sh->input_fd
    output,         \* bytes written to sh->output
    last,           \* what the last handler step did (observation only)
    hist,           \* what the run has done so far (observation only)
    env             \* how much the environment has done (bounds the runs)

vars == <<files, dir_exists, inotify, batch, pc, running, clients,
          input_buffer, stdin, output, last, hist, env>>

----------------------------------------------------------------------------
\* Bounds of the model.

\* file-system operations of the environment in one run
MaxFsOps == 2
\* chunks of user input in one run
MaxChunks == 1
\* frames, closes and resets the drivers produce in one run
MaxDrvOps == 3

----------------------------------------------------------------------------
\* Text constants of shell.c, as bytes.

\* " "
DELIM == <<32>>
\* "list"
LIST_CMD == <<108, 105, 115, 116>>
\* "help"
HELP_CMD == <<104, 101, 108, 112>>
\* "cmd"
CMD_CMD == <<99, 109, 100>>
\* "> "
PROMPT == <<62, 32>>
\* "Commands:\nlist --- list all drivers\nhelp --- print this message\n
\*  cmd drv slot drv_cmd ... --- send command drv_cmd to driver drv at slot
\*  with arguments\n"
HELP_MSG ==
    <<67, 111, 109, 109, 97, 110, 100, 115, 58, 10, 108, 105, 115, 116, 32,
      45, 45, 45, 32, 108, 105, 115, 116, 32, 97, 108, 108, 32, 100, 114,
      105, 118, 101, 114, 115, 10, 104, 101, 108, 112, 32, 45, 45, 45, 32,
      112, 114, 105, 110, 116, 32, 116, 104, 105, 115, 32, 109, 101, 115,
      115, 97, 103, 101, 10, 99, 109, 100, 32, 100, 114, 118, 32, 115, 108,
      111, 116, 32, 100, 114, 118, 95, 99, 109, 100, 32, 46, 46, 46, 32, 45,
      45, 45, 32, 115, 101, 110, 100, 32, 99, 111, 109, 109, 97, 110, 100,
      32, 100, 114, 118, 95, 99, 109, 100, 32, 116, 111, 32, 100, 114, 105,
      118, 101, 114, 32, 100, 114, 118, 32, 97, 116, 32, 115, 108, 111, 116,
      32, 119, 105, 116, 104, 32, 97, 114, 103, 117, 109, 101, 110, 116,
      115, 10>>
\* "Invalid command\n"
INVALID_MSG ==
    <<73, 110, 118, 97, 108, 105, 100, 32, 99, 111, 109, 109, 97, 110, 100, 10>>
\* "\n"
NEW_LINE == <<10>>
\* "Driver: "
DRIVER_PRE == <<68, 114, 105, 118, 101, 114, 58, 32>>
\* "Slot: "
SLOT_PRE == <<83, 108, 111, 116, 58, 32>>
\* the configured endpoint suffix, "drv"
SUFFIX == <<100, 114, 118>>
SUFFIX_LEN == Len(SUFFIX)

----------------------------------------------------------------------------
\* C strings.

At(s, i) == s[i + 1]
Take(s, n) == SubSeq(s, 1, n)
Drop(s, n) == SubSeq(s, n + 1, Len(s))
\* the bytes of s followed by the terminating NUL
CStr(s) == s \o <<0>>
isdigit(c) == c \in 48..57

\* smallest element of a non-empty set of naturals, 0 for the empty set:
\* the list element at which a scanning loop breaks, or null
FirstOf(S) == IF S = {} THEN 0 ELSE CHOOSE i \in S : \A j \in S : i <= j

\* strlen(s + i) + i of the C string in the byte sequence s (its end when
\* it holds no NUL)
strlen_from(s, i) ==
    LET z == FirstOf({j \in i + 1..Len(s) : s[j] = 0})
    IN  IF z = 0 THEN Len(s) ELSE z - 1
\* strlen of the C string that starts the byte sequence s
strlen(s) == strlen_from(s, 0)

RECURSIVE strncmp_from(_, _, _, _)
strncmp_from(a, b, n, i) ==
    IF i >= n THEN 0
    ELSE IF At(a, i) # At(b, i) THEN 1
    ELSE IF At(a, i) = 0 THEN 0
    ELSE strncmp_from(a, b, n, i + 1)
\* strncmp(a, b, n) of two NUL-terminated byte sequences: 0 when equal over
\* the first n bytes or up to a common NUL, non-zero otherwise
strncmp(a, b, n) == strncmp_from(a, b, n, 0)

\* strcmp(a, b) = 0 of two C strings given without their NUL
streq(a, b) == a = b

RECURSIVE DecDigits(_)
DecDigits(n) == IF n < 10 THEN <<48 + n>> ELSE DecDigits(n \div 10) \o <<48 + (n % 10)>>
\* printf("%u", n)
FmtU(n) == DecDigits(n)

RECURSIVE DigitsValue(_, _, _)
DigitsValue(s, i, acc) ==
    IF i < Len(s) /\ isdigit(At(s, i))
    THEN DigitsValue(s, i + 1, acc * 10 + (At(s, i) - 48))
    ELSE acc
\* atoi() of a string that starts with a digit, for values up to INT_MAX
atoi(s) == DigitsValue(s, 0, 0)

\* INT_MAX and UINT_MAX as printf("%u") prints them
INT_MAX_TEXT == <<50, 49, 52, 55, 52, 56, 51, 54, 52, 55>>
UINT_MAX_TEXT == <<52, 50, 57, 52, 57, 54, 55, 50, 57, 53>>

\* the digits a string starts with, without leading zeros
RECURSIVE LeadingDigits(_)
LeadingDigits(s) ==
    IF s # <<>> /\ isdigit(Head(s)) THEN <<Head(s)>> \o LeadingDigits(Tail(s)) ELSE <<>>
RECURSIVE NoLeadingZeros(_)
NoLeadingZeros(d) == IF Len(d) > 1 /\ Head(d) = 48 THEN NoLeadingZeros(Tail(d)) ELSE d

\* a <= b for two numbers printed without leading zeros
RECURSIVE TextLeq(_, _)
TextLeq(a, b) ==
    IF Len(a) # Len(b) THEN Len(a) < Len(b)
    ELSE IF a = <<>> THEN TRUE
    ELSE IF Head(a) # Head(b) THEN Head(a) < Head(b)
    ELSE TextLeq(Tail(a), Tail(b))

\* what an unsigned int assigned the result of atoi(s) may hold, as "%u"
\* prints it.  Beyond INT_MAX the behaviour of atoi is undefined: where it
\* is strtol cut to an int, a 64-bit long gives the number back (up to
\* UINT_MAX) and a 32-bit long gives INT_MAX.
atoi_outcomes(s) ==
    LET d == NoLeadingZeros(LeadingDigits(s))
    IN  IF TextLeq(d, INT_MAX_TEXT) THEN {FmtU(atoi(s))}
        ELSE (IF TextLeq(d, UINT_MAX_TEXT) THEN {d} ELSE {}) \cup {INT_MAX_TEXT}

----------------------------------------------------------------------------
\* 4.A Endpoint-name parser.

RECURSIVE scan_back(_, _)
scan_back(name, back) ==
    IF back > 0 /\ At(name, back) # 47 THEN scan_back(name, back - 1) ELSE back

RECURSIVE scan_name(_, _)
scan_name(name, name_end) ==
    IF name_end < Len(name) /\ At(name, name_end) # 46
    THEN scan_name(name, name_end + 1) ELSE name_end

RECURSIVE scan_slot(_, _)
scan_slot(name, slot_end) ==
    IF slot_end < Len(name) /\ At(name, slot_end) # 46 /\ isdigit(At(name, slot_end))
    THEN scan_slot(name, slot_end + 1) ELSE slot_end

\* the scans and tests of parse_unix_socket_name_ for a non-empty name:
\* [ok, name_start, driver_name_len, slot_start]
parse_fields(name) ==
    LET name_len   == Len(name)
        name_start == scan_back(name, name_len - 1)
        name_end   == scan_name(name, name_start)
        slot_start == name_end + 1
        slot_end   == scan_slot(name, slot_start)
        bad        == [ok |-> FALSE, name_start |-> 0, driver_name_len |-> 0,
                       slot_start |-> 0]
    IN  IF name_end = name_start \/ name_end = name_len THEN bad
        ELSE IF slot_end = slot_start \/ slot_end >= name_len
                \/ At(name, slot_end) # 46 THEN bad
        ELSE IF name_len - slot_end # SUFFIX_LEN + 1 THEN bad
        ELSE IF Drop(name, slot_end + 1) # SUFFIX THEN bad
        ELSE [ok |-> TRUE, name_start |-> name_start,
              driver_name_len |-> name_end - name_start,
              slot_start |-> slot_start]

\* parse_unix_socket_name_(name, name_len, dd) for a non-empty name:
\* [ok, name_start, driver_name_len, slot_number]; driver_name is the slice of
\* name that starts at name_start.
parse_unix_socket_name_(name) ==
    LET f == parse_fields(name)
    IN  [ok |-> f.ok, name_start |-> f.name_start,
         driver_name_len |-> f.driver_name_len,
         slot_number |-> IF f.ok THEN atoi(Drop(name, f.slot_start)) ELSE 0]

parse_unix_socket_name(name) == parse_unix_socket_name_(name)

\* dd.driver_name as the C string the pointer designates: the rest of the
\* file name from name_start on, with the name's NUL
dd_driver_name(name, dd) == CStr(Drop(name, dd.name_start))

\* the driver name proper: the first driver_name_len bytes of dd.driver_name
dd_name(name, dd) == Take(Drop(name, dd.name_start), dd.driver_name_len)

\* the identity (driver name, slot) a well-formed endpoint name parses to
NameIdent(name) ==
    <<dd_name(name, parse_unix_socket_name_(name)),
      parse_unix_socket_name_(name).slot_number>>

----------------------------------------------------------------------------
\* 4.B Driver registry.

RECURSIVE Xor(_, _)
Xor(a, b) ==
    IF a = 0 THEN b
    ELSE IF b = 0 THEN a
    ELSE 2 * Xor(a \div 2, b \div 2) + ((a + b) % 2)

\* the permutation table of the Pearson hash
PearsonT(x) == (x * 167 + 41) % 256

RECURSIVE pearson_from(_, _, _)
pearson_from(s, i, h) ==
    IF i > Len(s) THEN h ELSE pearson_from(s, i + 1, PearsonT(Xor(h, s[i])))
\* hash_pearson(ID, ID_len)
hash_pearson(id) == pearson_from(id, 1, 0)

\* DRIVER_SLOT_ID: sprintf(ID, "%.*s%u", name_len, name, slot)
DRIVER_SLOT_ID(name, slot) == name \o FmtU(slot)

\* avl_tree_get
avl_tree_get(tree, hash) == hash \in DOMAIN tree

\* avl_tree_add_or_get followed by list_init of a fresh node
avl_tree_add_or_get(tree, hash) ==
    IF hash \in DOMAIN tree THEN tree
    ELSE [h \in DOMAIN tree \cup {hash} |-> IF h = hash THEN <<>> ELSE tree[h]]

\* all records of the registry, as the set of their places <<hash, index>>
Places == UNION {{<<h, i>> : i \in 1..Len(clients[h])} : h \in DOMAIN clients}

\* list_remove_and_advance
list_remove(l, le) == SubSeq(l, 1, le - 1) \o SubSeq(l, le + 1, Len(l))

----------------------------------------------------------------------------
\* 4.C The client of one endpoint (usc_t) and its socket.

\* buffer_t of a read task: data holds the bytes received so far,
\* user_size the size asked for, offset the cursor
EmptyBuffer == [data |-> <<>>, offset |-> 0, user_size |-> 0]

\* unix_socket_client_init: a client with no socket
NewUsc ==
    [conn |-> "closed",          \* "closed" | "connecting" | "connected"
     cjob |-> FALSE,             \* connect completion pending in the reactor
     rjob |-> FALSE,             \* read job posted
     wjob |-> FALSE,             \* write job posted
     reader |-> "none",          \* read_task.reader
     rb |-> EmptyBuffer,         \* read_task.b
     currently_read |-> 0,
     wb |-> <<>>,                \* write_task.b
     currently_wrote |-> 0,
     eof |-> FALSE,
     connected_to_name |-> <<>>,
     k_in |-> <<>>,              \* socket: bytes the shell can read now
     k_out |-> <<>>,             \* socket: bytes the shell has written
     peer |-> "none",            \* "none" | "open" | "closed" | "reset"
     d_greeted |-> FALSE,        \* driver: has sent its first frame
     d_replied |-> 0]            \* driver: requests answered

\* unix_socket_client_connect / the connect of a reconnect: a new socket is
\* connected to the endpoint `name`; it succeeds when a socket file of that
\* name is there.  [ok, usc]
usc_connect(usc, name) ==
    IF files[name] = "sock"
    THEN [ok |-> TRUE,
          usc |-> [NewUsc EXCEPT !.conn = "connecting", !.cjob = TRUE,
                                 !.connected_to_name = name, !.peer = "open"]]
    ELSE [ok |-> FALSE,
          usc |-> [NewUsc EXCEPT !.connected_to_name = name]]

unix_socket_client_connect(usc, name) == usc_connect(usc, name)

\* unix_socket_client_reconnect: drops the socket with its jobs and buffers
\* and connects again to connected_to_name
unix_socket_client_reconnect(usc) == usc_connect(usc, usc.connected_to_name)

----------------------------------------------------------------------------
\* 4.D Directory supervisor.

\* check_unix_socket that is content with any entry
check_unix_socket_any_entry(name) == files[name] # "none"

\* check_unix_socket: stat() succeeds and S_ISSOCK
check_unix_socket(name) == files[name] = "sock"

\* the length strncmp is given in the duplicate scan of base_dir_smth_created
created_cmp_len(name, dd) == Len(name)

\* the scan of base_dir_smth_created for a record of the parsed identity
created_find(l, name, dd) ==
    FirstOf({i \in 1..Len(l) :
        /\ Len(l[i].name) = dd.driver_name_len
        /\ strncmp(CStr(l[i].name), dd_driver_name(name, dd),
                   created_cmp_len(name, dd)) = 0
        /\ l[i].slot = dd.slot_number})

\* the scan of base_dir_smth_deleted
deleted_find(l, name, dd) ==
    FirstOf({i \in 1..Len(l) :
        /\ Len(l[i].name) = dd.driver_name_len
        /\ strncmp(CStr(l[i].name), dd_driver_name(name, dd),
                   Len(l[i].name)) = 0
        /\ l[i].slot = dd.slot_number})

\* base_dir_smth_created(sh, name, name_len) on registry cl:
\* [clients, abort, res, hash]
base_dir_smth_created(cl, name) ==
    IF ~check_unix_socket(name)
    THEN [clients |-> cl, abort |-> FALSE, res |-> "not_socket"]
    ELSE LET dd == parse_unix_socket_name(name) IN
    IF ~dd.ok
    THEN [clients |-> cl, abort |-> FALSE, res |-> "bad_name"]
    ELSE LET hash == hash_pearson(DRIVER_SLOT_ID(dd_name(name, dd), dd.slot_number))
             tree == avl_tree_add_or_get(cl, hash)
             l    == tree[hash]
             le   == created_find(l, name, dd)
             sd   == [name |-> dd_name(name, dd),
                      slot |-> dd.slot_number,
                      commands |-> <<>>,
                      usc |-> unix_socket_client_connect(NewUsc, name).usc]
         IN  IF le # 0
             THEN [clients |-> tree, abort |-> TRUE, res |-> "duplicate"]
             ELSE [clients |-> [tree EXCEPT ![hash] = Append(l, sd)],
                   abort |-> FALSE, res |-> "inserted"]

\* base_dir_smth_deleted(sh, name, name_len) on registry cl: [clients, res]
base_dir_smth_deleted(cl, name) ==
    LET dd == parse_unix_socket_name(name) IN
    IF ~dd.ok
    THEN [clients |-> cl, res |-> "bad_name"]
    ELSE LET hash == hash_pearson(DRIVER_SLOT_ID(dd_name(name, dd), dd.slot_number)) IN
    IF ~avl_tree_get(cl, hash)
    THEN [clients |-> cl, res |-> "not_registered"]
    ELSE LET l  == cl[hash]
             le == deleted_find(l, name, dd)
         IN  IF le = 0
             THEN [clients |-> cl, res |-> "not_registered"]
             ELSE [clients |-> [cl EXCEPT ![hash] = list_remove(l, le)],
                   res |-> "removed"]

----------------------------------------------------------------------------
\* Wire protocol (protocol.h): signatures and frame layouts, host byte order.

PR_DRV_COMMAND == 0
PR_DRV_INFO == 1
PR_DRV_RESPONSE == 2
MAX_COMMAND_NAME_LEN == 32
MAX_COMMAND_DESCRIPTION_LEN == 128
\* sizeof(pr_signature_t), sizeof(pr_driver_info_t), sizeof(pr_driver_response_t),
\* sizeof(pr_driver_command_t), sizeof(pr_driver_command_argument_t)
SIZEOF_SIGNATURE == 1
SIZEOF_INFO == 3
SIZEOF_RESPONSE == 5
SIZEOF_COMMAND == 4
SIZEOF_ARGUMENT == 1
\* sizeof(pr_driver_command_info_t)
SIZEOF_COMMAND_INFO == MAX_COMMAND_NAME_LEN + MAX_COMMAND_DESCRIPTION_LEN + 1

\* a uint16_t / uint32_t in host (little-endian) byte order
U16(n) == <<n % 256, (n \div 256) % 256>>
U32(n) == <<n % 256, (n \div 256) % 256, (n \div 65536) % 256, (n \div 16777216) % 256>>
GetU16(b, i) == At(b, i) + 256 * At(b, i + 1)
GetU32(b, i) == At(b, i) + 256 * At(b, i + 1) + 65536 * At(b, i + 2)
                + 16777216 * At(b, i + 3)

\* n bytes, all c
Fill(n, c) == [i \in 1..n |-> c]
\* the text s in a fixed array of n bytes, NUL-padded
Pad(s, n) == IF Len(s) >= n THEN Take(s, n) ELSE s \o Fill(n - Len(s), 0)

RECURSIVE Flatten(_)
Flatten(ss) == IF ss = <<>> THEN <<>> ELSE Head(ss) \o Flatten(Tail(ss))

\* what the driver puts on the wire: an info frame for the catalog cat, a
\* sequence of [name, descr, arity]
InfoFrame(cat) ==
    <<PR_DRV_INFO>> \o U16(Len(cat)) \o
    Flatten([i \in 1..Len(cat) |->
        Pad(cat[i].name, MAX_COMMAND_NAME_LEN) \o
        Pad(cat[i].descr, MAX_COMMAND_DESCRIPTION_LEN) \o <<cat[i].arity>>])

\* what the driver puts on the wire: a response frame
ResponseFrame(payload) == <<PR_DRV_RESPONSE>> \o U32(Len(payload)) \o payload

\* the serialized arguments of a command frame, as cmd_cmd lays them out:
\* a length byte, then that many bytes of the argument
RECURSIVE EncodeArgs(_)
EncodeArgs(args) ==
    IF args = <<>> THEN <<>>
    ELSE <<Head(args).len>> \o Take(Head(args).arg, Head(args).len)
         \o EncodeArgs(Tail(args))

\* the command frame with a selector that counts from one
EncodeCommand_one_based(cmd_idx, args) ==
    <<PR_DRV_COMMAND>> \o U16((cmd_idx + 1) % 65536) \o <<Len(args) % 256>>
    \o EncodeArgs(args)

\* the command frame cmd_cmd builds: args are arg_from_input_t [arg, len]
EncodeCommand(cmd_idx, args) ==
    <<PR_DRV_COMMAND>> \o U16(cmd_idx % 65536) \o <<Len(args) % 256>>
    \o EncodeArgs(args)

\* the driver's reading of a command frame at the head of the byte stream b:
\* [ok, cmd_idx, args, rest]; not ok while the frame is incomplete
RECURSIVE DecodeArgs(_, _, _)
DecodeArgs(b, argc, acc) ==
    IF argc = 0 THEN [ok |-> TRUE, args |-> acc, rest |-> b]
    ELSE IF Len(b) < 1 \/ Len(b) < 1 + b[1]
         THEN [ok |-> FALSE, args |-> acc, rest |-> b]
    ELSE DecodeArgs(Drop(b, 1 + b[1]), argc - 1, Append(acc, SubSeq(b, 2, 1 + b[1])))

DecodeCommand(b) ==
    IF Len(b) < SIZEOF_COMMAND \/ b[1] # PR_DRV_COMMAND
    THEN [ok |-> FALSE, cmd_idx |-> 0, args |-> <<>>, rest |-> b]
    ELSE LET r == DecodeArgs(Drop(b, SIZEOF_COMMAND), At(b, 3), <<>>)
         IN  [ok |-> r.ok, cmd_idx |-> GetU16(b, 1), args |-> r.args, rest |-> r.rest]

\* the number of complete command frames at the head of the byte stream b
RECURSIVE CountCommands(_)
CountCommands(b) ==
    LET d == DecodeCommand(b) IN IF d.ok THEN 1 + CountCommands(d.rest) ELSE 0

----------------------------------------------------------------------------
\* 4.E Input line parser.

\* the successive results of strtok(line, DELIM), strtok(NULL, DELIM), ...:
\* the maximal runs of bytes other than the delimiter
strtok_all(line) ==
    LET IsDelim(i) == i < 1 \/ i > Len(line) \/ line[i] = DELIM[1]
        starts     == {i \in 1..Len(line) : ~IsDelim(i) /\ IsDelim(i - 1)}
        ends       == {i \in 1..Len(line) : ~IsDelim(i) /\ IsDelim(i + 1)}
        Nth(S, k)  == CHOOSE x \in S : Cardinality({y \in S : y <= x}) = k
    IN  [k \in 1..Cardinality(starts) |-> SubSeq(line, Nth(starts, k), Nth(ends, k))]

\* the tokens of the C string that line[offset] = '\0' leaves in the buffer
Tokens(line) == strtok_all(Take(line, strlen(line)))

isspace(c) == c = 32 \/ c \in 9..13

RECURSIVE skip_space(_)
skip_space(s) == IF s # <<>> /\ isspace(Head(s)) THEN skip_space(Tail(s)) ELSE s

\* strtoul(slot, &slot_endptr, 10) assigned to an unsigned int:
\* [value, end] where end is the text slot_endptr points to.  A negated
\* value stands for its residue modulo 2^32; the lines of the model carry
\* no minus sign and few digits.
strtoul(slot) ==
    LET t      == skip_space(slot)
        neg    == t # <<>> /\ Head(t) = 45
        signed == t # <<>> /\ Head(t) \in {43, 45}
        digs   == IF signed THEN Tail(t) ELSE t
        k      == CHOOSE k \in 0..Len(digs) :
                     /\ \A i \in 1..k : isdigit(digs[i])
                     /\ (k < Len(digs) => ~isdigit(digs[k + 1]))
        v      == DigitsValue(digs, 0, 0)
    IN  IF k = 0 THEN [value |-> 0, end |-> slot]
        ELSE [value |-> IF neg THEN 0 - v ELSE v, end |-> Drop(digs, k)]

\* the length test of run_command_from_input: TRUE when the argument is
\* refused
arg_too_long(arg_len) == arg_len > 255

\* the arguments of a `cmd` line as run_command_from_input collects them:
\* arg_from_input_t [arg, len]
CollectArgs(tokens) ==
    [i \in 1..Len(tokens) |-> [arg |-> tokens[i], len |-> Len(tokens[i]) % 256]]

\* run_command_from_input up to the call it ends with:
\* [verb |-> "invalid" | "list" | "help" | "cmd", drv, slot, cmd, args]
ParseLine(line) ==
    LET tok == Tokens(line)
        inv == [verb |-> "invalid", drv |-> <<>>, slot |-> 0, cmd |-> <<>>, args |-> <<>>]
    IN  IF tok = <<>> THEN inv
        ELSE IF streq(LIST_CMD, tok[1]) THEN [inv EXCEPT !.verb = "list"]
        ELSE IF streq(HELP_CMD, tok[1]) THEN [inv EXCEPT !.verb = "help"]
        ELSE IF ~streq(CMD_CMD, tok[1]) THEN inv
        ELSE IF Len(tok) < 4 THEN inv
        ELSE IF strtoul(tok[3]).end # <<>> THEN inv
        ELSE IF \E i \in 5..Len(tok) : arg_too_long(Len(tok[i])) THEN inv
        ELSE [verb |-> "cmd", drv |-> tok[2], slot |-> strtoul(tok[3]).value,
              cmd |-> tok[4], args |-> CollectArgs(SubSeq(tok, 5, Len(tok)))]

----------------------------------------------------------------------------
\* 4.H Frame codec of a client (the client side of unix-socket-server.c).

Min(a, b) == IF a < b THEN a ELSE b

\* buffer_realloc(&b, n): existing bytes are kept up to the new size
buffer_realloc(b, n) == [b EXCEPT !.data = Take(b.data, Min(n, Len(b.data))),
                                  !.user_size = n]

\* unix_socket_client_recv(usc, sz, reader, ctx)
unix_socket_client_recv(usc, sz, reader) ==
    [usc EXCEPT !.currently_read = 0,
                !.rb = [data |-> Take(usc.rb.data, Min(usc.rb.user_size, Len(usc.rb.data))),
                        offset |-> usc.rb.user_size,
                        user_size |-> usc.rb.user_size + sz],
                !.reader = reader,
                !.rjob = TRUE]

\* unix_socket_client_send(usc, d, sz, writer, ctx)
unix_socket_client_send(usc, d) ==
    [usc EXCEPT !.currently_wrote = 0, !.wb = d, !.wjob = TRUE]

\* printf("%.*s", prec, s): the bytes of s up to its NUL, at most prec
PrintfS(s, prec) == Take(s, Min(prec, strlen(s)))

----------------------------------------------------------------------------
\* 4.F Command dispatcher.

\* finish_cmd
finish_cmd == PROMPT

\* cmd_invalid: what it prints
cmd_invalid == INVALID_MSG \o finish_cmd

\* cmd_help: what it prints
cmd_help == HELP_MSG \o finish_cmd

\* the block print_drv prints for one record
print_sd(sd) ==
    NEW_LINE \o DRIVER_PRE \o PrintfS(sd.name, Len(sd.name)) \o NEW_LINE \o
    SLOT_PRE \o FmtU(sd.slot) \o NEW_LINE \o
    Flatten([i \in 1..Len(sd.commands) |->
        PrintfS(sd.commands[i].name, Len(sd.commands[i].name))
        \o <<32, 60, 97, 114, 105, 116, 121, 58, 32>>       \* " <arity: "
        \o FmtU(sd.commands[i].arity)
        \o <<62, 32, 45, 45, 45, 32>>                       \* "> --- "
        \o PrintfS(sd.commands[i].descr, Len(sd.commands[i].descr))
        \o NEW_LINE])

\* print_drv that prints the first record of each bucket only
print_drv_first_of_bucket(cl, order) ==
    Flatten([k \in 1..Len(order) |->
        IF cl[order[k]] = <<>> THEN <<>> ELSE print_sd(cl[order[k]][1])])

\* print_drv over the tree, its nodes visited in the order `order` (a
\* sequence of hashes; the shape of the tree decides it)
print_drv(cl, order) ==
    Flatten([k \in 1..Len(order) |->
        Flatten([i \in 1..Len(cl[order[k]]) |-> print_sd(cl[order[k]][i])])])

\* cmd_list that starts with a newline
cmd_list_newline_first(cl, order) == NEW_LINE \o print_drv(cl, order) \o finish_cmd

\* cmd_list: what it prints
cmd_list(cl, order) == print_drv(cl, order) \o finish_cmd

\* the orders in which print_drv may visit the nodes of the tree
TreeOrders(cl) ==
    {o \in [1..Cardinality(DOMAIN cl) -> DOMAIN cl] :
        \A i, j \in 1..Cardinality(DOMAIN cl) : i # j => o[i] # o[j]}

\* the scan of cmd_cmd for the record of (drv, slot)
cmd_find(l, drv, slot) ==
    FirstOf({i \in 1..Len(l) :
        /\ Len(l[i].name) = Len(drv)
        /\ strncmp(CStr(l[i].name), CStr(drv), Len(drv)) = 0
        /\ l[i].slot = slot})

\* the scan of cmd_cmd over the catalog: the index at which the loop ends,
\* vector_count when no name matches
catalog_find(commands, cmd) ==
    LET hit == {idx \in 0..Len(commands) - 1 :
                  strncmp(At(commands, idx).name, CStr(cmd), MAX_COMMAND_NAME_LEN) = 0}
    IN  IF hit = {} THEN Len(commands)
        ELSE CHOOSE idx \in hit : \A j \in hit : idx <= j

\* the arity test with <= for <
too_many_arguments_at_arity(cmd_arity, argc) == cmd_arity <= argc

\* the arity test of cmd_cmd: TRUE when the command is rejected
too_many_arguments(cmd_arity, argc) == cmd_arity < argc

\* cmd_cmd(sh, drv, slot, cmd, args) on registry cl:
\* [res |-> "invalid" | "sent", clients, hash, le, cmd_idx, frame]
cmd_cmd(cl, drv, slot, cmd, args) ==
    LET hash == hash_pearson(DRIVER_SLOT_ID(PrintfS(drv, Len(drv)), slot))
        inv  == [res |-> "invalid", clients |-> cl, hash |-> hash, le |-> 0,
                 cmd_idx |-> 0, frame |-> <<>>]
    IN  IF ~avl_tree_get(cl, hash) THEN inv
        ELSE LET l  == cl[hash]
                 le == cmd_find(l, drv, slot)
             IN  IF le = 0 THEN inv
                 ELSE LET sd  == l[le]
                          idx == catalog_find(sd.commands, cmd)
                      IN  IF idx = Len(sd.commands) THEN inv
                          ELSE IF too_many_arguments(At(sd.commands, idx).arity, Len(args))
                               THEN inv
                          ELSE LET frame == EncodeCommand(idx, args)
                               IN  [res |-> "sent",
                                    clients |-> [cl EXCEPT ![hash][le].usc =
                                        unix_socket_client_send(sd.usc, frame)],
                                    hash |-> hash, le |-> le, cmd_idx |-> idx,
                                    frame |-> frame]

----------------------------------------------------------------------------
\* 4.C The callbacks of a client.  Each works on a record sd and yields
\* [sd, out, did]: the record after it, the bytes it prints, what it did.

\* the reconnect of a callback, whatever its result
Reconnected(sd) == [sd EXCEPT !.usc = unix_socket_client_reconnect(sd.usc).usc]

\* the macro with an end of file handled like an error
READ_ERROR_HANDLER_eof_reconnects(error, eof) ==
    IF error # 0 \/ eof THEN "reconnect" ELSE "proceed"

\* READ_ERROR_HANDLER: what the macro makes of (error, usc->eof)
READ_ERROR_HANDLER(error, eof) ==
    IF error # 0 THEN "reconnect"
    ELSE IF eof THEN "return"
    ELSE "proceed"

\* what the writer callback does on an error
writer_on_error(sd) ==
    LET r == unix_socket_client_reconnect(sd.usc)
    IN  [sd |-> [sd EXCEPT !.usc = r.usc],
         out |-> IF r.ok THEN PROMPT ELSE <<>>,
         did |-> "reconnect"]

\* writer(usc, error, sh)
writer(sd, error) ==
    LET usc0 == [sd.usc EXCEPT !.rb = buffer_realloc(sd.usc.rb, 0), !.wb = <<>>]
    IN  IF error # 0 THEN writer_on_error([sd EXCEPT !.usc = usc0])
        ELSE [sd |-> [sd EXCEPT !.usc =
                        unix_socket_client_recv(usc0, SIZEOF_SIGNATURE, "reader_signature")],
              out |-> <<>>, did |-> "armed"]

\* connector(usc, sh)
connector(sd) ==
    LET usc0 == [sd.usc EXCEPT !.rb = buffer_realloc(sd.usc.rb, 0), !.wb = <<>>]
    IN  [sd EXCEPT !.usc =
            unix_socket_client_recv(usc0, SIZEOF_SIGNATURE, "reader_signature")]

\* the catalog with the last byte of each name field left out
InstallCatalog_short_name(data) ==
    [idx \in 1..GetU16(data, 1) |->
        LET dci == SubSeq(data, SIZEOF_INFO + (idx - 1) * SIZEOF_COMMAND_INFO + 1,
                          SIZEOF_INFO + idx * SIZEOF_COMMAND_INFO)
        IN  [name  |-> Take(dci, MAX_COMMAND_NAME_LEN - 1) \o <<0>>,
             descr |-> SubSeq(dci, MAX_COMMAND_NAME_LEN + 1,
                              MAX_COMMAND_NAME_LEN + MAX_COMMAND_DESCRIPTION_LEN) \o <<0>>,
             arity |-> dci[SIZEOF_COMMAND_INFO]]]

\* the catalog reader_info installs from a complete info frame
InstallCatalog(data) ==
    [idx \in 1..GetU16(data, 1) |->
        LET dci == SubSeq(data, SIZEOF_INFO + (idx - 1) * SIZEOF_COMMAND_INFO + 1,
                          SIZEOF_INFO + idx * SIZEOF_COMMAND_INFO)
        IN  [name  |-> Take(dci, MAX_COMMAND_NAME_LEN) \o <<0>>,
             descr |-> SubSeq(dci, MAX_COMMAND_NAME_LEN + 1,
                              MAX_COMMAND_NAME_LEN + MAX_COMMAND_DESCRIPTION_LEN) \o <<0>>,
             arity |-> dci[SIZEOF_COMMAND_INFO]]]

\* reader_info(usc, error, sh)
reader_info(sd, error) ==
    LET usc == sd.usc
        h   == READ_ERROR_HANDLER(error, usc.eof)
        required_length == SIZEOF_INFO + SIZEOF_COMMAND_INFO * GetU16(usc.rb.data, 1)
    IN  IF h = "reconnect" THEN [sd |-> Reconnected(sd), out |-> <<>>, did |-> "reconnect"]
        ELSE IF h = "return" THEN [sd |-> sd, out |-> <<>>, did |-> "eof"]
        ELSE IF usc.rb.user_size < required_length
        THEN [sd |-> [sd EXCEPT !.usc = unix_socket_client_recv(
                        [usc EXCEPT !.rb.offset = usc.rb.user_size],
                        required_length - usc.rb.user_size, "reader_info")],
              out |-> <<>>, did |-> "rearm"]
        ELSE [sd |-> [sd EXCEPT !.commands = InstallCatalog(usc.rb.data)],
              out |-> <<>>, did |-> "info"]

\* what reader_response prints for a complete response frame
print_response(data) ==
    PrintfS(Drop(data, SIZEOF_RESPONSE), GetU32(data, 1)) \o NEW_LINE \o finish_cmd

\* reader_response(usc, error, sh)
reader_response(sd, error) ==
    LET usc == sd.usc
        h   == READ_ERROR_HANDLER(error, usc.eof)
        required_length == SIZEOF_RESPONSE + GetU32(usc.rb.data, 1)
    IN  IF h = "reconnect" THEN [sd |-> Reconnected(sd), out |-> <<>>, did |-> "reconnect"]
        ELSE IF h = "return" THEN [sd |-> sd, out |-> <<>>, did |-> "eof"]
        ELSE IF usc.rb.user_size < required_length
        THEN [sd |-> [sd EXCEPT !.usc = unix_socket_client_recv(
                        [usc EXCEPT !.rb.offset = usc.rb.user_size],
                        required_length - usc.rb.user_size, "reader_response")],
              out |-> <<>>, did |-> "rearm"]
        ELSE [sd |-> sd, out |-> print_response(usc.rb.data), did |-> "response"]

\* reader_signature that takes every signature but DRV_INFO for a response
reader_signature_default_is_response(sd, error) ==
    LET usc == sd.usc
        h   == READ_ERROR_HANDLER(error, usc.eof)
        u1  == [usc EXCEPT !.rb.offset = SIZEOF_SIGNATURE]
        s   == At(usc.rb.data, 0)
    IN  IF h = "reconnect" THEN [sd |-> Reconnected(sd), out |-> <<>>, did |-> "reconnect"]
        ELSE IF h = "return" THEN [sd |-> sd, out |-> <<>>, did |-> "eof"]
        ELSE IF s = PR_DRV_INFO
        THEN [sd |-> [sd EXCEPT !.usc = unix_socket_client_recv(
                        u1, SIZEOF_INFO - SIZEOF_SIGNATURE, "reader_info")],
              out |-> <<>>, did |-> "signature"]
        ELSE [sd |-> [sd EXCEPT !.usc = unix_socket_client_recv(
                        u1, SIZEOF_RESPONSE - SIZEOF_SIGNATURE, "reader_response")],
              out |-> <<>>, did |-> "signature"]

\* reader_signature(usc, error, sh)
reader_signature(sd, error) ==
    LET usc == sd.usc
        h   == READ_ERROR_HANDLER(error, usc.eof)
        u1  == [usc EXCEPT !.rb.offset = SIZEOF_SIGNATURE]
        s   == At(usc.rb.data, 0)
    IN  IF h = "reconnect" THEN [sd |-> Reconnected(sd), out |-> <<>>, did |-> "reconnect"]
        ELSE IF h = "return" THEN [sd |-> sd, out |-> <<>>, did |-> "eof"]
        ELSE IF s = PR_DRV_INFO
        THEN [sd |-> [sd EXCEPT !.usc = unix_socket_client_recv(
                        u1, SIZEOF_INFO - SIZEOF_SIGNATURE, "reader_info")],
              out |-> <<>>, did |-> "signature"]
        ELSE IF s = PR_DRV_RESPONSE
        THEN [sd |-> [sd EXCEPT !.usc = unix_socket_client_recv(
                        u1, SIZEOF_RESPONSE - SIZEOF_SIGNATURE, "reader_response")],
              out |-> <<>>, did |-> "signature"]
        ELSE [sd |-> Reconnected([sd EXCEPT !.usc = u1]), out |-> <<>>,
              did |-> "bad_signature"]

\* the call of read_task.reader; cond records how the read completed and
\* seen what the reader is called with: the number of calls, usc->eof, error
\* and the bytes in the buffer behind its offset
call_reader(sd, error, cond) ==
    LET r == IF sd.usc.reader = "reader_info" THEN reader_info(sd, error)
             ELSE IF sd.usc.reader = "reader_response" THEN reader_response(sd, error)
             ELSE reader_signature(sd, error)
    IN  [sd |-> r.sd, out |-> r.out, did |-> r.did, cond |-> cond,
         seen |-> [calls |-> 1, eof |-> sd.usc.eof, error |-> error,
                   have |-> Len(sd.usc.rb.data) - sd.usc.rb.offset]]

\* the count that starts anew at every readiness event
bytes_to_read_forgets_progress(usc) == usc.rb.user_size - usc.rb.offset

\* bytes_to_read of data_may_be_read
bytes_to_read(usc) == usc.rb.user_size - usc.rb.offset - usc.currently_read

\* data_may_be_read on the client of sd: the read job fired.
\* The socket holds k_in; at its end the peer is open (EAGAIN), closed
\* (a read of 0 bytes) or reset (a failed read).
data_may_be_read(sd) ==
    LET usc           == sd.usc
        pending       == Len(usc.k_in)
        n             == Min(bytes_to_read(usc), pending)
        got           == [usc EXCEPT !.rb.data = usc.rb.data \o Take(usc.k_in, n),
                                     !.k_in = Drop(usc.k_in, n),
                                     !.currently_read = usc.currently_read + n]
    IN  IF pending = 0
        THEN call_reader([sd EXCEPT !.usc = [usc EXCEPT !.eof = TRUE, !.rjob = FALSE]],
                         0, "eof")
        ELSE IF n = bytes_to_read(usc)
        THEN call_reader([sd EXCEPT !.usc = [got EXCEPT !.eof = FALSE, !.rjob = FALSE]],
                         0, "full")
        ELSE IF usc.peer = "closed"
        THEN call_reader([sd EXCEPT !.usc = [got EXCEPT !.eof = TRUE, !.rjob = FALSE]],
                         0, "eof")
        ELSE IF usc.peer = "reset"
        THEN call_reader([sd EXCEPT !.usc = [got EXCEPT !.eof = FALSE, !.rjob = FALSE]],
                         1, "error")
        ELSE [sd |-> [sd EXCEPT !.usc = [got EXCEPT !.eof = FALSE]], out |-> <<>>,
              did |-> "again", cond |-> "again",
              seen |-> [calls |-> 0, eof |-> FALSE, error |-> 0,
                        have |-> Len(got.rb.data) - got.rb.offset]]

\* data_may_be_sent on the client of sd: the write job fired and the socket
\* takes n of the bytes left (all of them, or fewer and then EAGAIN); a
\* socket that is not open to the peer fails the write.
data_may_be_sent(sd, n) ==
    LET usc            == sd.usc
        bytes_to_write == Len(usc.wb) - usc.currently_wrote
        wrote          == [usc EXCEPT
                             !.k_out = usc.k_out \o SubSeq(usc.wb, usc.currently_wrote + 1,
                                                           usc.currently_wrote + n),
                             !.currently_wrote = usc.currently_wrote + n]
        done(r, cond)  == [sd |-> r.sd, out |-> r.out, did |-> r.did, cond |-> cond]
    IN  IF usc.peer # "open"
        THEN done(writer([sd EXCEPT !.usc = [usc EXCEPT !.wjob = FALSE]], 1), "error")
        ELSE IF n < bytes_to_write
        THEN [sd |-> [sd EXCEPT !.usc = wrote], out |-> <<>>, did |-> "again",
              cond |-> "again"]
        ELSE done(writer([sd EXCEPT !.usc = [wrote EXCEPT !.wjob = FALSE]], 0), "full")

----------------------------------------------------------------------------
\* The environment: file names, catalogs, replies and input lines of the runs.

\* "a.11.drv" and "a1.1.drv": two endpoints whose DRIVER_SLOT_ID is "a11"
FileA == <<97, 46, 49, 49, 46, 100, 114, 118>>
FileB == <<97, 49, 46, 49, 46, 100, 114, 118>>
FileNames == {FileA, FileB}

\* the catalog of the drivers: get (arity 0), set (arity 1) and a command
\* whose name fills the 32 bytes of its field, "nnn...n" (arity 0)
Catalog ==
    <<[name |-> <<103, 101, 116>>, descr |-> <<103, 101, 116, 32, 105, 116>>, arity |-> 0],
      [name |-> <<115, 101, 116>>, descr |-> <<115, 101, 116, 32, 105, 116>>, arity |-> 1],
      [name |-> Fill(MAX_COMMAND_NAME_LEN, 110), descr |-> <<110>>, arity |-> 0]>>

\* the payloads of the drivers' responses: "ok", and "o" NUL "k"
Payloads == {<<111, 107>>, <<111, 0, 107>>}

\* an argument of n bytes
LongArg(n) == Fill(n, 120)

\* "list", "help", "bogus", ""
LineList == <<108, 105, 115, 116>>
LineHelp == <<104, 101, 108, 112>>
LineBogus == <<98, 111, 103, 117, 115>>
LineEmpty == <<>>
\* "cmd a 11 get", "cmd a 11 set 42", "cmd a 11 set"
LineGet == <<99, 109, 100, 32, 97, 32, 49, 49, 32, 103, 101, 116>>
LineSet42 == <<99, 109, 100, 32, 97, 32, 49, 49, 32, 115, 101, 116, 32, 52, 50>>
LineSet == <<99, 109, 100, 32, 97, 32, 49, 49, 32, 115, 101, 116>>
\* "cmd a 11 get 42", "cmd a 11 set 42 42": one argument too many
LineGet42 == <<99, 109, 100, 32, 97, 32, 49, 49, 32, 103, 101, 116, 32, 52, 50>>
LineSet4242 == <<99, 109, 100, 32, 97, 32, 49, 49, 32, 115, 101, 116, 32, 52, 50, 32, 52, 50>>
\* "cmd a 11": no command name; "cmd a 1x get": the slot is no number
LineNoCmd == <<99, 109, 100, 32, 97, 32, 49, 49>>
LineBadSlot == <<99, 109, 100, 32, 97, 32, 49, 120, 32, 103, 101, 116>>
\* "cmd a 11 nop": no such command; "cmd b 2 get": no such driver
LineNop == <<99, 109, 100, 32, 97, 32, 49, 49, 32, 110, 111, 112>>
LineNoDrv == <<99, 109, 100, 32, 98, 32, 50, 32, 103, 101, 116>>
\* "cmd a1 1 get": the driver of FileB
LineGetB == <<99, 109, 100, 32, 97, 49, 32, 49, 32, 103, 101, 116>>
\* "cmd a 11 set xxx...": an argument of 255 and one of 256 bytes
LineSet255 == <<99, 109, 100, 32, 97, 32, 49, 49, 32, 115, 101, 116, 32>> \o LongArg(255)
LineSet256 == <<99, 109, 100, 32, 97, 32, 49, 49, 32, 115, 101, 116, 32>> \o LongArg(256)

\* "cmd a 11 nnn...n": the command of 32 bytes, and a name of 33 bytes
LineN32 == <<99, 109, 100, 32, 97, 32, 49, 49, 32>> \o Fill(MAX_COMMAND_NAME_LEN, 110)
LineN33 == <<99, 109, 100, 32, 97, 32, 49, 49, 32>> \o Fill(MAX_COMMAND_NAME_LEN + 1, 110)
\* "cmd a +11 get": the slot with a sign
LinePlus == <<99, 109, 100, 32, 97, 32, 43, 49, 49, 32, 103, 101, 116>>

Lines == {LineList, LineHelp, LineBogus, LineEmpty, LineGet, LineSet42, LineSet,
          LineGet42, LineSet4242, LineNoCmd, LineBadSlot, LineNop, LineNoDrv,
          LineGetB, LineSet255, LineSet256, LinePlus, LineN32, LineN33}

----------------------------------------------------------------------------
\* State.

TypeOK ==
    /\ files \in [FileNames -> {"none", "sock", "file"}]
    /\ dir_exists \in BOOLEAN
    /\ running \in BOOLEAN
    /\ pc \in {"start", "scan", "scan_loop", "idle", "dir_loop", "input_loop",
               "stopped", "aborted"}

Init ==
    /\ files \in [FileNames -> {"none", "sock"}]
    /\ dir_exists = TRUE
    /\ inotify = <<>>
    /\ batch = <<>>
    /\ pc = "start"
    /\ running = FALSE
    /\ clients = <<>>
    /\ input_buffer = [data |-> <<>>, offset |-> 0]
    /\ stdin = <<>>
    /\ output = <<>>
    /\ last = [op |-> "init"]
    /\ hist = [owed |-> 0, gone |-> {}, handed |-> <<>>, done |-> 0]
    /\ env = [fs |-> 0, chunks |-> 0, drv |-> 0, fed |-> 0, stream |-> 0]

\* the shell process is alive
Alive == pc \notin {"stopped", "aborted"}

\* a watch that is installed after the initial scan
Watching_after_scan == pc \notin {"start", "scan", "scan_loop"} /\ dir_exists

\* the inotify watch is installed
Watching == pc # "start" /\ dir_exists

Event(mask, name) == [mask |-> mask, name |-> name]

----------------------------------------------------------------------------
\* Steps of the environment.

\* a driver (or anyone) creates an entry of the base directory
FsCreate(name, type) ==
    /\ Alive /\ dir_exists /\ env.fs < MaxFsOps
    /\ files[name] = "none"
    /\ files' = [files EXCEPT ![name] = type]
    /\ inotify' = IF Watching THEN Append(inotify, Event("IN_CREATE", name)) ELSE inotify
    /\ env' = [env EXCEPT !.fs = @ + 1]
    /\ UNCHANGED <<dir_exists, batch, pc, running, clients, input_buffer, stdin,
                   output, last, hist>>

\* an entry of the base directory is unlinked
FsDelete(name) ==
    /\ Alive /\ dir_exists /\ env.fs < MaxFsOps
    /\ files[name] # "none"
    /\ files' = [files EXCEPT ![name] = "none"]
    /\ inotify' = IF Watching THEN Append(inotify, Event("IN_DELETE", name)) ELSE inotify
    /\ env' = [env EXCEPT !.fs = @ + 1]
    /\ UNCHANGED <<dir_exists, batch, pc, running, clients, input_buffer, stdin,
                   output, last, hist>>

\* the (empty) base directory is removed: the kernel queues IN_DELETE_SELF
\* and, the watch being gone with the directory, IN_IGNORED
FsRmdir ==
    /\ Alive /\ dir_exists /\ env.fs < MaxFsOps
    /\ pc # "start"
    /\ \A f \in FileNames : files[f] = "none"
    /\ dir_exists' = FALSE
    /\ inotify' = inotify \o <<Event("IN_DELETE_SELF", <<>>), Event("IN_IGNORED", <<>>)>>
    /\ env' = [env EXCEPT !.fs = @ + 1]
    /\ UNCHANGED <<files, batch, pc, running, clients, input_buffer, stdin,
                   output, last, hist>>

\* the user types a line.  The shell looks at its input only from the
\* reactor, so it is enough to let the bytes arrive while the reactor waits;
\* the same holds for what the drivers do.
UserTypeUpTo(line, max) ==
    /\ pc = "idle" /\ env.chunks < max
    /\ stdin' = stdin \o line \o NEW_LINE
    /\ env' = [env EXCEPT !.chunks = @ + 1]
    /\ UNCHANGED <<files, dir_exists, inotify, batch, pc, running, clients,
                   input_buffer, output, last, hist>>

UserType(line) == UserTypeUpTo(line, MaxChunks)

SetSd(cl, p, sd) == [cl EXCEPT ![p[1]][p[2]] = sd]
SdAt(p) == clients[p[1]][p[2]]

\* the driver behind the socket of place p sends the bytes `frame`
DrvEmit(p, frame, usc) ==
    /\ clients' = SetSd(clients, p, [SdAt(p) EXCEPT !.usc =
                        [usc EXCEPT !.k_in = usc.k_in \o frame]])
    /\ env' = [env EXCEPT !.drv = @ + 1]
    /\ UNCHANGED <<files, dir_exists, inotify, batch, pc, running,
                   input_buffer, stdin, output, last, hist>>

\* a driver announces its catalog on a fresh connection: `frame` is the info
\* frame, or the first bytes of one the driver never completes
DrvInfo(p, frame) ==
    /\ pc = "idle" /\ env.drv < MaxDrvOps
    /\ SdAt(p).usc.peer = "open" /\ ~SdAt(p).usc.d_greeted
    /\ DrvEmit(p, frame, [SdAt(p).usc EXCEPT !.d_greeted = TRUE])

Greetings == {InfoFrame(Catalog), Take(InfoFrame(Catalog), 2)}

\* a driver answers a request it has received in full: with a response, or
\* (a misbehaving driver) with its catalog or with a command frame
DrvReply(p, frame) ==
    /\ pc = "idle" /\ env.drv < MaxDrvOps
    /\ SdAt(p).usc.peer = "open"
    /\ CountCommands(SdAt(p).usc.k_out) > SdAt(p).usc.d_replied
    /\ DrvEmit(p, frame, [SdAt(p).usc EXCEPT !.d_replied = @ + 1])

\* a driver closes its end of the connection, or the connection breaks
DrvClose(p, how) ==
    /\ pc = "idle" /\ env.drv < MaxDrvOps
    /\ SdAt(p).usc.peer = "open"
    /\ clients' = SetSd(clients, p, [SdAt(p) EXCEPT !.usc.peer = how])
    /\ env' = [env EXCEPT !.drv = @ + 1]
    /\ UNCHANGED <<files, dir_exists, inotify, batch, pc, running,
                   input_buffer, stdin, output, last, hist>>

\* what a driver may answer: a response, its catalog again, a command frame,
\* or the first bytes of a response it never completes
Replies == {ResponseFrame(pl) : pl \in Payloads}
           \cup {InfoFrame(Catalog), EncodeCommand(0, <<>>),
                 Take(ResponseFrame(<<111, 107>>), 3)}

----------------------------------------------------------------------------
\* Steps of the shell: shell_run, then one handler of the reactor at a time.

\* a < b in the byte order of alphasort
RECURSIVE LexLess(_, _)
LexLess(a, b) ==
    IF b = <<>> THEN FALSE
    ELSE IF a = <<>> THEN TRUE
    ELSE IF Head(a) # Head(b) THEN Head(a) < Head(b)
    ELSE LexLess(Tail(a), Tail(b))

RECURSIVE Sorted(_)
Sorted(S) ==
    IF S = {} THEN <<>>
    ELSE LET m == CHOOSE x \in S : \A y \in S \ {x} : LexLess(x, y)
         IN  <<m>> \o Sorted(S \ {m})

\* socket_name_filter
socket_name_filter(name) == files[name] = "sock" /\ parse_unix_socket_name_(name).ok

\* shell_run up to the initial scan: the watch is installed
shell_run_watch ==
    /\ pc = "start"
    /\ pc' = "scan"
    /\ running' = TRUE
    /\ last' = [op |-> "watch"]
    /\ UNCHANGED <<files, dir_exists, inotify, batch, clients, input_buffer,
                   stdin, output, env, hist>>

\* connect_to_all_existing_sockets: scandir
shell_run_scan ==
    /\ pc = "scan"
    /\ batch' = [i \in 1..Cardinality({f \in FileNames : socket_name_filter(f)}) |->
                    Event("IN_CREATE",
                          Sorted({f \in FileNames : socket_name_filter(f)})[i])]
    /\ pc' = "scan_loop"
    /\ last' = [op |-> "scandir"]
    /\ UNCHANGED <<files, dir_exists, inotify, running, clients, input_buffer,
                   stdin, output, env, hist>>

\* the history after a CREATED event for `name` has been handled with result
\* res, and after a DELETED event has
Recreated(name, res) ==
    IF res \in {"inserted", "duplicate"}
    THEN [hist EXCEPT !.gone = @ \ {NameIdent(name)}]
    ELSE hist
Deleted(name, res) ==
    IF res = "removed"
    THEN [hist EXCEPT !.gone = @ \cup {NameIdent(name)}]
    ELSE hist

\* connect_to_all_existing_sockets: base_dir_smth_created for one entry
scan_entry ==
    /\ pc = "scan_loop" /\ batch # <<>>
    /\ LET r == base_dir_smth_created(clients, Head(batch).name)
       IN  /\ clients' = r.clients
           /\ pc' = IF r.abort THEN "aborted" ELSE "scan_loop"
           /\ last' = [op |-> "created", name |-> Head(batch).name, res |-> r.res]
           /\ hist' = Recreated(Head(batch).name, r.res)
    /\ batch' = Tail(batch)
    /\ UNCHANGED <<files, dir_exists, inotify, running, input_buffer, stdin,
                   output, env>>

\* shell_run after the scan: the first prompt, the jobs, io_service_run
shell_run_loop ==
    /\ pc = "scan_loop" /\ batch = <<>>
    /\ output' = output \o PROMPT
    /\ pc' = "idle"
    /\ last' = [op |-> "run"]
    /\ UNCHANGED <<files, dir_exists, inotify, batch, running, clients,
                   input_buffer, stdin, env, hist>>

\* base_dir_event up to its dispatch loop: everything pending is read
base_dir_event ==
    /\ pc = "idle" /\ inotify # <<>>
    /\ batch' = inotify
    /\ inotify' = <<>>
    /\ pc' = "dir_loop"
    /\ last' = [op |-> "events"]
    /\ UNCHANGED <<files, dir_exists, running, clients, input_buffer, stdin,
                   output, env, hist>>

\* the dispatch loop that goes on when running is false
AfterEvent_ignores_running(abort, rest, run) ==
    IF abort THEN "aborted"
    ELSE IF rest = <<>> THEN "idle"
    ELSE "dir_loop"

\* where the dispatch loop of base_dir_event goes after an event
AfterEvent(abort, rest, run) ==
    IF abort THEN "aborted"
    ELSE IF ~run THEN "stopped"
    ELSE IF rest = <<>> THEN "idle"
    ELSE "dir_loop"

\* base_dir_single_event: one event of the batch is dispatched
base_dir_single_event ==
    /\ pc = "dir_loop" /\ batch # <<>> /\ running
    /\ LET ev  == Head(batch)
           cr  == base_dir_smth_created(clients, ev.name)
           del == base_dir_smth_deleted(clients, ev.name)
       IN  IF ev.mask = "IN_CREATE"
           THEN /\ clients' = cr.clients
                /\ pc' = AfterEvent(cr.abort, Tail(batch), TRUE)
                /\ last' = [op |-> "created", name |-> ev.name, res |-> cr.res]
                /\ hist' = Recreated(ev.name, cr.res)
                /\ batch' = Tail(batch)
                /\ UNCHANGED running
           ELSE IF ev.mask = "IN_DELETE"
           THEN /\ clients' = del.clients
                /\ pc' = AfterEvent(FALSE, Tail(batch), TRUE)
                /\ last' = [op |-> "deleted", name |-> ev.name, res |-> del.res]
                /\ hist' = Deleted(ev.name, del.res)
                /\ batch' = Tail(batch)
                /\ UNCHANGED running
           ELSE IF ev.mask = "IN_DELETE_SELF"
           THEN /\ running' = FALSE
                /\ pc' = AfterEvent(FALSE, Tail(batch), FALSE)
                /\ batch' = <<>>
                /\ last' = [op |-> "self_deleted", discarded |-> Len(Tail(batch))]
                /\ UNCHANGED <<clients, hist>>
           ELSE /\ pc' = AfterEvent(FALSE, Tail(batch), TRUE)
                /\ batch' = Tail(batch)
                /\ last' = [op |-> "ignored"]
                /\ UNCHANGED <<running, clients, hist>>
    /\ UNCHANGED <<files, dir_exists, inotify, input_buffer, stdin, output, env>>

\* the reactor may run a job of the client at place p
Ready(p) == pc = "idle" /\ p \in Places

\* the connect of the client at p has completed: connector
connect_done(p) ==
    /\ Ready(p) /\ SdAt(p).usc.cjob
    /\ clients' = SetSd(clients, p,
            connector([SdAt(p) EXCEPT !.usc.cjob = FALSE, !.usc.conn = "connected"]))
    /\ last' = [op |-> "connector", p |-> p]
    /\ UNCHANGED <<files, dir_exists, inotify, batch, pc, running, input_buffer,
                   stdin, output, env, hist>>

\* the history after a callback of a client has printed `out`: a prompt
\* settles one of the commands that wait for theirs
Prompted(out) ==
    IF Len(out) >= Len(PROMPT) /\ Drop(out, Len(out) - Len(PROMPT)) = PROMPT
       /\ hist.owed > 0
    THEN [hist EXCEPT !.owed = @ - 1]
    ELSE hist

\* the socket of the client at p is readable and its read job runs
read_ready(p) ==
    /\ Ready(p) /\ SdAt(p).usc.rjob /\ ~SdAt(p).usc.cjob
    /\ SdAt(p).usc.k_in # <<>> \/ SdAt(p).usc.peer \in {"closed", "reset"}
    /\ LET r == data_may_be_read(SdAt(p))
       IN  /\ clients' = SetSd(clients, p, r.sd)
           /\ output' = output \o r.out
           /\ last' = [op |-> "read", p |-> p, did |-> r.did, cond |-> r.cond,
                       reader |-> SdAt(p).usc.reader, out |-> r.out,
                       need |-> SdAt(p).usc.rb.user_size - SdAt(p).usc.rb.offset,
                       seen |-> r.seen]
           /\ hist' = Prompted(r.out)
    /\ UNCHANGED <<files, dir_exists, inotify, batch, pc, running, input_buffer,
                   stdin, env>>

\* the socket of the client at p is writable and its write job runs; the
\* socket takes everything left, or at first one byte only
write_ready(p) ==
    /\ Ready(p) /\ SdAt(p).usc.wjob /\ ~SdAt(p).usc.cjob
    /\ \E n \in {Len(SdAt(p).usc.wb) - SdAt(p).usc.currently_wrote}
                \cup (IF SdAt(p).usc.currently_wrote = 0 /\ Len(SdAt(p).usc.wb) > 1
                      THEN {1} ELSE {}) :
         LET r == data_may_be_sent(SdAt(p), n)
         IN  /\ clients' = SetSd(clients, p, r.sd)
             /\ output' = output \o r.out
             /\ last' = [op |-> "write", p |-> p, did |-> r.did, cond |-> r.cond,
                         out |-> r.out]
             /\ hist' = [Prompted(r.out) EXCEPT
                            !.done = IF r.cond = "again" THEN @ ELSE @ + 1]
    /\ UNCHANGED <<files, dir_exists, inotify, batch, pc, running, input_buffer,
                   stdin, env>>

\* on_input up to its loop: everything pending is read into the buffer
on_input ==
    /\ pc = "idle" /\ stdin # <<>>
    /\ input_buffer' = [input_buffer EXCEPT !.data = @ \o stdin]
    /\ stdin' = <<>>
    /\ pc' = "input_loop"
    /\ last' = [op |-> "input"]
    /\ UNCHANGED <<files, dir_exists, inotify, batch, running, clients, output, env, hist>>

\* the scan that starts one byte behind the offset
newline_from_skips_first(data, offset) ==
    LET nl == FirstOf({j \in offset + 2..Len(data) : data[j] = 10})
    IN  IF nl = 0 THEN (IF offset < Len(data) THEN Len(data) ELSE offset) ELSE nl - 1

\* detect_newline_on_input: the offset at which the scan stops
newline_from(data, offset) ==
    LET nl == FirstOf({j \in offset + 1..Len(data) : data[j] = 10})
    IN  IF nl = 0 THEN (IF offset < Len(data) THEN Len(data) ELSE offset) ELSE nl - 1

detect_newline_on_input(b) ==
    IF Len(b.data) = 0 THEN [found |-> FALSE, offset |-> b.offset]
    ELSE LET o == newline_from(b.data, b.offset)
         IN  [found |-> o < Len(b.data), offset |-> o]

\* shift_input followed by offset = 0
shift_input(data, offset) == [data |-> Drop(data, offset + 1), offset |-> 0]

\* the loop of on_input finds a line: run_command_from_input, shift_input
input_line ==
    /\ pc = "input_loop"
    /\ detect_newline_on_input(input_buffer).found
    /\ LET o    == detect_newline_on_input(input_buffer).offset
           line == Take(input_buffer.data, o)
           c    == ParseLine(line)
           r    == cmd_cmd(clients, c.drv, c.slot, c.cmd, c.args)
       IN  /\ input_buffer' = shift_input(input_buffer.data, o)
           /\ IF c.verb = "cmd"
              THEN /\ clients' = r.clients
                   /\ output' = IF r.res = "invalid" THEN output \o cmd_invalid
                                ELSE output
                   /\ last' = [op |-> "line", line |-> line, verb |-> c.verb,
                               res |-> r.res, p |-> <<r.hash, r.le>>,
                               frame |-> r.frame,
                               out |-> IF r.res = "invalid" THEN cmd_invalid ELSE <<>>]
                   /\ hist' = IF r.res = "sent"
                              THEN [hist EXCEPT !.owed = @ + 1,
                                                !.handed = Append(@, r.frame)]
                              ELSE hist
              ELSE /\ \E order \in TreeOrders(clients) :
                        LET out == IF c.verb = "list" THEN cmd_list(clients, order)
                                   ELSE IF c.verb = "help" THEN cmd_help
                                   ELSE cmd_invalid
                        IN  /\ output' = output \o out
                            /\ last' = [op |-> "line", line |-> line, verb |-> c.verb,
                                        res |-> c.verb, out |-> out]
                   /\ UNCHANGED <<clients, hist>>
    /\ UNCHANGED <<files, dir_exists, inotify, batch, pc, running, stdin, env>>

\* the loop of on_input finds no further line: on_input returns
input_done ==
    /\ pc = "input_loop"
    /\ ~detect_newline_on_input(input_buffer).found
    /\ input_buffer' = [input_buffer EXCEPT
                            !.offset = detect_newline_on_input(input_buffer).offset]
    /\ pc' = "idle"
    /\ last' = [op |-> "input_done"]
    /\ UNCHANGED <<files, dir_exists, inotify, batch, running, clients, stdin,
                   output, env, hist>>

----------------------------------------------------------------------------
\* The system.

\* shell_run and the handlers of the directory supervisor
Supervisor ==
    \/ shell_run_watch \/ shell_run_scan \/ scan_entry \/ shell_run_loop
    \/ base_dir_event \/ base_dir_single_event

\* the handlers of the client sockets
Clients ==
    \E p \in Places : connect_done(p) \/ read_ready(p) \/ write_ready(p)

\* the handler of the user input
Input == on_input \/ input_line \/ input_done

\* the file system
FileSystem ==
    \/ \E name \in FileNames, type \in {"sock", "file"} : FsCreate(name, type)
    \/ \E name \in FileNames : FsDelete(name)
    \/ FsRmdir

\* the drivers
Drivers ==
    \/ \E p \in Places : DrvClose(p, "closed") \/ DrvClose(p, "reset")
    \/ \E p \in Places, frame \in Greetings : DrvInfo(p, frame)
    \/ \E p \in Places, frame \in Replies : DrvReply(p, frame)

\* The directory supervisor under a changing base directory.
NextDir == Supervisor \/ FileSystem
SpecDir == Init /\ [][NextDir]_vars

\* the lines that reach a driver, and `list`
LinesIo == {LineGet, LineSet42, LineList}

\* The command interpreter: the base directory no longer changes, the
\* drivers announce their catalogs and the user types lines.
NextCmd ==
    \/ shell_run_watch \/ shell_run_scan \/ scan_entry \/ shell_run_loop
    \/ Clients \/ Input
    \/ \E p \in Places : DrvInfo(p, InfoFrame(Catalog))
    \/ \E line \in Lines : UserType(line)
SpecCmd == Init /\ [][NextCmd]_vars

\* Requests and their answers: the base directory no longer changes, the
\* drivers answer, misbehave and close while the user sends them commands.
NextIo ==
    \/ shell_run_watch \/ shell_run_scan \/ scan_entry \/ shell_run_loop
    \/ Clients \/ Input \/ Drivers
    \/ \E line \in LinesIo : UserType(line)
SpecIo == Init /\ [][NextIo]_vars

\* The driver of FileA comes, announces its catalog and goes while the user
\* sends it a command.
LineGetOnly == {LineGet}
NextDel ==
    \/ Supervisor \/ Clients \/ Input
    \/ FsCreate(FileA, "sock") \/ FsDelete(FileA)
    \/ \E p \in Places : DrvInfo(p, InfoFrame(Catalog))
    \/ \E line \in LineGetOnly : UserType(line)
SpecDel == Init /\ [][NextDel]_vars

\* One endpoint whose driver answers, misbehaves, closes and vanishes.
InitOne == Init /\ files[FileB] = "none"
NextErr ==
    \/ Supervisor \/ Clients \/ Input \/ Drivers
    \/ FsDelete(FileA)
    \/ \E line \in LineGetOnly : UserType(line)
SpecErr == InitOne /\ [][NextErr]_vars

----------------------------------------------------------------------------
\* Properties of the registry (spec 3, 4.B, 4.D).

\* the identity of the record at place p, and the records of an identity
Ident(p) == <<SdAt(p).name, SdAt(p).slot>>
RecordsOf(id) == {p \in Places : Ident(p) = id}
PlacesOf(cl) == UNION {{<<h, i>> : i \in 1..Len(cl[h])} : h \in DOMAIN cl}

\* the directory supervisor is about to handle, and this step handles, a
\* CREATED event for a well-named socket
HandlesCreated ==
    /\ pc \in {"scan_loop", "dir_loop"}
    /\ batch # <<>> /\ batch' = Tail(batch)
    /\ Head(batch).mask = "IN_CREATE"
    /\ files[Head(batch).name] = "sock"
    /\ parse_unix_socket_name_(Head(batch).name).ok

\* C1: the registry never contains two driver records with the same
\* (driver-name, slot) identity, also when the same endpoint is reported by
\* CREATED twice with no DELETED in between.
C1_NoTwoRecordsOfOneIdentity ==
    \A p, q \in Places : p # q => Ident(p) # Ident(q)

\* C2: whenever the directory-event queue is empty and every event read from
\* it has been handled, every registry record corresponds to an existing
\* well-named socket file of the record's identity.
C2_RecordsHaveSocketFiles ==
    (pc = "idle" /\ inotify = <<>> /\ batch = <<>>) =>
        \A p \in Places :
            \E f \in FileNames :
                /\ files[f] = "sock"
                /\ parse_unix_socket_name_(f).ok
                /\ NameIdent(f) = Ident(p)

\* C3: a CREATED event (real, or synthetic from the initial scan) for a
\* socket whose parsed identity equals that of a record already in the
\* registry is fatal: the shell aborts and inserts no second record.
C3_DuplicateCreatedIsFatal ==
    [][(HandlesCreated /\ RecordsOf(NameIdent(Head(batch).name)) # {})
        => (/\ pc' = "aborted"
            /\ Cardinality(PlacesOf(clients')) = Cardinality(Places))]_vars

\* the identity a `cmd` line names: its second token and the number its
\* third token spells
LineIdent(line) == <<Tokens(line)[2], strtoul(Tokens(line)[3]).value>>

\* C4: once a DELETED event for a registered endpoint has been handled, and
\* until a CREATED event for that endpoint is handled, a `cmd` line for that
\* identity prints "Invalid command" and sends nothing.
C4_CmdAfterDeletedIsInvalid ==
    (/\ last.op = "line" /\ last.verb = "cmd"
     /\ LineIdent(last.line) \in hist.gone)
    => (last.res = "invalid" /\ last.out = INVALID_MSG \o PROMPT
        /\ \A p \in RecordsOf(LineIdent(last.line)) : ~SdAt(p).usc.wjob)

----------------------------------------------------------------------------
\* Properties of the command interpreter (spec 4.E, 4.F, 8).

\* the line the loop of on_input runs next, and the step that runs it
CurLine ==
    Take(input_buffer.data,
         FirstOf({j \in 1..Len(input_buffer.data) : input_buffer.data[j] = 10}) - 1)
RunsLine == pc = "input_loop" /\ input_buffer'.data # input_buffer.data

\* a token that spells a decimal unsigned integer, and the integer
IsNumber(tok) ==
    LET d == IF tok # <<>> /\ Head(tok) = 43 THEN Tail(tok) ELSE tok
    IN  d # <<>> /\ \A i \in 1..Len(d) : isdigit(d[i])
NumberOf(tok) ==
    DigitsValue(IF Head(tok) = 43 THEN Tail(tok) ELSE tok, 0, 0)

\* the positions (from 0) of the catalog entries of record p named `name`
NamedCommands(p, name) ==
    {idx \in 0..Len(SdAt(p).commands) - 1 :
        LET nm == At(SdAt(p).commands, idx).name
        IN  Take(nm, strlen(nm)) = name}
PositionOf(p, name) == FirstOf(NamedCommands(p, name))
ArityOf(p, name) == At(SdAt(p).commands, PositionOf(p, name)).arity

\* a `cmd` line with its positional tokens and a numeric slot that names a
\* registered driver and a command of its catalog
AddressesCommand(line) ==
    LET w == Tokens(line)
    IN  /\ Len(w) >= 4 /\ w[1] = CMD_CMD /\ IsNumber(w[3])
        /\ \E p \in RecordsOf(<<w[2], NumberOf(w[3])>>) : NamedCommands(p, w[4]) # {}
Addressee(line) ==
    CHOOSE p \in RecordsOf(<<Tokens(line)[2], NumberOf(Tokens(line)[3])>>) :
        NamedCommands(p, Tokens(line)[4]) # {}
ArgsOf(line) == SubSeq(Tokens(line), 5, Len(Tokens(line)))

\* the lines the interpreter is to reject
Rejected(line) ==
    LET w == Tokens(line)
    IN  \/ w = <<>>
        \/ w[1] \notin {LIST_CMD, HELP_CMD, CMD_CMD}
        \/ /\ w[1] = CMD_CMD
           /\ \/ ~AddressesCommand(line)
              \/ \E i \in 1..Len(ArgsOf(line)) : Len(ArgsOf(line)[i]) > 255
              \/ Len(ArgsOf(line)) > ArityOf(Addressee(line), w[4])

\* this step prints "Invalid command" and the prompt, and nothing else changes
\* in the registry and its clients
RejectsLine == output' = output \o INVALID_MSG \o PROMPT /\ clients' = clients

\* this step hands exactly one command frame to the send path of the client
\* at p, prints nothing and leaves everything else in the registry alone
SendsOneFrame(p) ==
    LET wb == clients'[p[1]][p[2]].usc.wb
    IN  /\ DecodeCommand(wb).ok /\ DecodeCommand(wb).rest = <<>>
        /\ clients' = SetSd(clients, p,
                [SdAt(p) EXCEPT !.usc.wb = wb, !.usc.wjob = TRUE,
                                !.usc.currently_wrote = 0])
        /\ output' = output

C6_ArityDecidesAcceptance ==
    [][(RunsLine /\ AddressesCommand(CurLine)) =>
        LET a == ArityOf(Addressee(CurLine), Tokens(CurLine)[4])
            k == Len(ArgsOf(CurLine))
            short == \A i \in 1..k : Len(ArgsOf(CurLine)[i]) <= 255
        IN  /\ (k <= a /\ short) => SendsOneFrame(Addressee(CurLine))
            /\ (k = a + 1 \/ ~short) => RejectsLine]_vars

C6_Witness ==
    /\ last.op = "line" /\ last.line = LineSet255 /\ last.res = "sent"
    /\ SdAt(last.p).usc.wjob

\* the serialized form of an argument list: a length byte, then the bytes
Serialized(args) == Flatten([i \in 1..Len(args) |-> <<Len(args[i])>> \o args[i]])

\* C7: the command frame built for an accepted `cmd` line carries the
\* signature DRV_COMMAND, the position of the named entry in the driver's
\* catalog as cmd_idx, the number of arguments as argc and the arguments in
\* input order, each as a length byte and that many bytes; decoding it
\* yields the same (cmd_idx, args).
C7_CommandFrameContents ==
    (last.op = "line" /\ last.res = "sent" /\ AddressesCommand(last.line)) =>
        LET f    == last.frame
            args == ArgsOf(last.line)
            pos  == PositionOf(last.p, Tokens(last.line)[4])
        IN  /\ last.p = Addressee(last.line)
            /\ f[1] = PR_DRV_COMMAND
            /\ GetU16(f, 1) = pos
            /\ f[4] = Len(args)
            /\ Drop(f, SIZEOF_COMMAND) = Serialized(args)
            /\ DecodeCommand(f) = [ok |-> TRUE, cmd_idx |-> pos, args |-> args,
                                   rest |-> <<>>]
            /\ SdAt(last.p).usc.wb = f

C7_Witness ==
    /\ last.op = "line" /\ last.line = LineSet42 /\ last.res = "sent"
    /\ last.frame = <<PR_DRV_COMMAND, 1, 0, 1, 2, 52, 50>>

----------------------------------------------------------------------------
\* Properties of the clients (spec 4.C, 4.F, 7).

\* the payload of the complete response frame in the read buffer of record p
PayloadAt(p) ==
    SubSeq(SdAt(p).usc.rb.data, SIZEOF_RESPONSE + 1,
           SIZEOF_RESPONSE + GetU32(SdAt(p).usc.rb.data, 1))

\* C8: an accepted `cmd` prints nothing when its frame is handed to the send
\* path nor when the frame has been written; when the driver's response is
\* complete the shell prints the payload verbatim, then a newline, then the
\* prompt.
C8_PromptFollowsResponse ==
    /\ (last.op = "line" /\ last.res = "sent") => last.out = <<>>
    /\ (last.op = "write" /\ last.cond = "full") => last.out = <<>>
    /\ (last.op = "read" /\ last.did = "response") =>
            last.out = PayloadAt(last.p) \o NEW_LINE \o PROMPT

\* no job of any client is posted in the reactor
NoClientJob ==
    \A p \in Places : ~SdAt(p).usc.cjob /\ ~SdAt(p).usc.rjob /\ ~SdAt(p).usc.wjob

\* C9: every complete input line ends by printing the prompt: once the input
\* is used up and no client has anything left to do, no accepted `cmd` is
\* still waiting for its prompt.
C9_EveryLineEndsWithPrompt ==
    (pc = "idle" /\ stdin = <<>> /\ inotify = <<>> /\ NoClientJob) => hist.owed = 0

\* the client of record p has dropped its connection for a new connect
ReconnectAttempted(p) == SdAt(p).usc.conn # "connected"

----------------------------------------------------------------------------
\* Properties of a client's catalog (spec 4.C, 8 (d)).

\* the record at place p of registry cl
SdIn(cl, p) == cl[p[1]][p[2]]

\* this step is a callback of the client at p that ends in a reconnect
ReconnectsAt(p) ==
    /\ last'.op \in {"read", "write"}
    /\ last'.did \in {"reconnect", "bad_signature"}
    /\ last'.p = p

\* C11: a reconnect of a driver's client keeps the record's (driver-name,
\* slot) and resets its catalog: right after the reconnect the record's
\* catalog is empty (and stays so until a fresh DRV_INFO frame has been
\* received).
C11_ReconnectResetsCatalog ==
    [][\A p \in Places : ReconnectsAt(p) =>
        /\ p \in PlacesOf(clients')
        /\ SdIn(clients', p).name = SdAt(p).name
        /\ SdIn(clients', p).slot = SdAt(p).slot
        /\ SdIn(clients', p).commands = <<>>]_vars

\* the catalogs a driver may announce: the three commands, none, and the
\* first two in the other order
Catalogs == {Catalog, <<>>, <<Catalog[2], Catalog[1]>>}

\* INFO frames on a fresh connection and as the answer to a request, for
\* two endpoints of one hash bucket.
NextInfo ==
    \/ shell_run_watch \/ shell_run_scan \/ scan_entry \/ shell_run_loop
    \/ Clients \/ Input
    \/ \E p \in Places, cat \in Catalogs :
            DrvInfo(p, InfoFrame(cat)) \/ DrvReply(p, InfoFrame(cat))
    \/ \E line \in LineGetOnly : UserType(line)
SpecInfo == Init /\ [][NextInfo]_vars

\* the C string in a fixed field of bytes
CStrOf(field) == Take(field, strlen(field))

\* the descriptors (name, description, arity) of a record's catalog
Descriptors(commands) ==
    [i \in 1..Len(commands) |->
        [name |-> CStrOf(commands[i].name), descr |-> CStrOf(commands[i].descr),
         arity |-> commands[i].arity]]

\* this step completes the reception of an INFO frame at p
InstallsAt(p) ==
    /\ last'.op = "read" /\ last'.did = "info" /\ last'.p = p

\* C12: when a DRV_INFO frame has been completely received for a driver, the
\* driver's catalog is exactly the descriptors of that frame, in frame order,
\* whatever catalog it held before (none for a frame of no commands), and
\* the catalogs of all other records are unchanged.
C12_InfoInstallsCatalog ==
    [][\A p \in Places : InstallsAt(p) =>
        /\ \E cat \in Catalogs :
              /\ SdIn(clients', p).usc.rb.data = InfoFrame(cat)
              /\ Descriptors(SdIn(clients', p).commands) = cat
        /\ \A q \in Places \ {p} :
              SdIn(clients', q).commands = SdAt(q).commands]_vars

\* an INFO frame of no commands, sent as the answer to an accepted command,
\* has replaced the catalog, while another record holds its own
C12_Witness ==
    /\ last.op = "read" /\ last.did = "info"
    /\ SdAt(last.p).usc.d_replied = 1
    /\ SdAt(last.p).commands = <<>>
    /\ \E q \in Places \ {last.p} : SdAt(q).commands # <<>>

----------------------------------------------------------------------------
\* Properties of `list` (spec 4.F, 7).

\* the block of one driver record: a newline, "Driver: <name>",
\* "Slot: <slot>", then "<cmd-name> <arity: N> --- <description>" per entry
EntryLine(d) ==
    d.name \o <<32, 60, 97, 114, 105, 116, 121, 58, 32>> \o DecDigits(d.arity)
    \o <<62, 32, 45, 45, 45, 32>> \o d.descr \o <<10>>
Block(sd) ==
    <<10>> \o <<68, 114, 105, 118, 101, 114, 58, 32>> \o sd.name \o <<10>>
    \o <<83, 108, 111, 116, 58, 32>> \o DecDigits(sd.slot) \o <<10>>
    \o Flatten([i \in 1..Len(sd.commands) |-> EntryLine(Descriptors(sd.commands)[i])])

\* the records of the registry, each once, in any order
Enumerations ==
    {e \in [1..Cardinality(Places) -> Places] :
        \A i, j \in 1..Cardinality(Places) : i # j => e[i] # e[j]}

\* Two endpoints of one hash bucket announce catalogs while the user asks
\* for the list.
LineListOnly == {LineList}
NextShow ==
    \/ shell_run_watch \/ shell_run_scan \/ scan_entry \/ shell_run_loop
    \/ Clients \/ Input
    \/ \E p \in Places, cat \in Catalogs : DrvInfo(p, InfoFrame(cat))
    \/ \E line \in LineListOnly : UserType(line)
SpecShow == Init /\ [][NextShow]_vars

\* this step runs the line `list`
RunsList == RunsLine /\ Tokens(CurLine) # <<>> /\ Tokens(CurLine)[1] = LIST_CMD

\* C13: `list` prints exactly one block per record of the registry (records
\* of one hash bucket included), a record without catalog giving its header
\* only, then the prompt, and leaves the registry unchanged.
C13_ListPrintsEveryRecordOnce ==
    [][RunsList =>
        /\ \E e \in Enumerations :
              output' = output \o Flatten([i \in 1..Cardinality(Places) |-> Block(SdAt(e[i]))])
                        \o PROMPT
        /\ clients' = clients]_vars

\* `list` has run over two records of one bucket, one with a catalog and one
\* without
C13_Witness ==
    /\ last.op = "line" /\ last.line = LineList
    /\ \E p, q \in Places :
          /\ p[1] = q[1] /\ p[2] # q[2]
          /\ SdAt(p).commands # <<>> /\ SdAt(q).commands = <<>>
    /\ Len(last.out) > Len(PROMPT)

\* The driver of FileA comes and goes while the user asks for the list.
NextList ==
    \/ Supervisor \/ Clients \/ Input
    \/ FsCreate(FileA, "sock") \/ FsDelete(FileA)
    \/ \E p \in Places : DrvInfo(p, InfoFrame(Catalog))
    \/ \E line \in LineListOnly : UserType(line)
SpecList == Init /\ [][NextList]_vars

\* C14 (as stated): with an empty registry the output of the line `list` is
\* a newline followed by the prompt.
C14_EmptyListPrintsNewlinePrompt ==
    (last.op = "line" /\ last.line = LineList /\ Places = {})
        => last.out = NEW_LINE \o PROMPT

\* C14 (amended): with an empty registry the output of the line `list` is
\* the prompt alone.
C14_EmptyListPrintsPrompt ==
    (last.op = "line" /\ last.line = LineList /\ Places = {})
        => last.out = PROMPT

\* `list` has run on a registry whose only record had been deleted
C14_Witness ==
    /\ last.op = "line" /\ last.line = LineList /\ Places = {}
    /\ DOMAIN clients # {}
    /\ output = PROMPT \o PROMPT

----------------------------------------------------------------------------
\* Properties of the end of the base directory (spec 4.D).

\* this step dispatches a SELF_DELETED event
HandlesSelfDeleted ==
    /\ pc = "dir_loop" /\ batch # <<>> /\ batch' # batch
    /\ Head(batch).mask = "IN_DELETE_SELF"

\* C19: when SELF_DELETED is processed running becomes false and the reactor
\* stops; the events after it in the batch are discarded, and from then on
\* no directory event changes the registry.
C19_SelfDeletedStopsEverything ==
    [][/\ HandlesSelfDeleted =>
            (~running' /\ pc' = "stopped" /\ batch' = <<>> /\ clients' = clients)
       /\ (pc # "start" /\ ~running) =>
            (~running' /\ pc' = "stopped" /\ batch' = <<>> /\ clients' = clients)]_vars

\* SELF_DELETED has been processed with an event behind it in its batch
C19_Witness ==
    /\ last.op = "self_deleted" /\ last.discarded >= 1
    /\ pc = "stopped" /\ ~running /\ batch = <<>>

----------------------------------------------------------------------------
\* Properties of the endpoint-name parser (spec 4.A, 8 (i)).

\* the longest driver name of the parser's runs
MaxNameLen == 2

\* bytes of driver names: 'd', 'r', 'v', '1', '-'
NameBytes == {100, 114, 118, 49, 45}

\* the driver names of at most n bytes: non-empty, without '.' and '/'
RECURSIVE NamesUpTo(_)
NamesUpTo(n) ==
    IF n = 0 THEN {}
    ELSE LET shorter == NamesUpTo(n - 1)
         IN  {<<b>> : b \in NameBytes} \cup shorter
             \cup {Append(s, b) : s \in shorter, b \in NameBytes}
DriverNames == NamesUpTo(MaxNameLen)

\* slots as "%u" prints them: 0, 1, 11, 42, 1000000000, INT_MAX, INT_MAX + 1,
\* 3000000000, UINT_MAX
SlotTexts ==
    {<<48>>, <<49>>, <<49, 49>>, <<52, 50>>,
     <<49, 48, 48, 48, 48, 48, 48, 48, 48, 48>>,
     INT_MAX_TEXT,
     <<50, 49, 52, 55, 52, 56, 51, 54, 52, 56>>,
     <<51, 48, 48, 48, 48, 48, 48, 48, 48, 48>>,
     UINT_MAX_TEXT}

\* "<name>.<slot>.<SUFFIX>"
FormatName(name, slot_text) == name \o <<46>> \o slot_text \o <<46>> \o SUFFIX

\* what parse_unix_socket_name_ may leave in dd for a file name:
\* [ok, name, slot], the slot as "%u" prints it
ParseOutcomes(file) ==
    LET f == parse_fields(file)
    IN  IF ~f.ok THEN {[ok |-> FALSE, name |-> <<>>, slot |-> <<>>]}
        ELSE {[ok |-> TRUE,
               name |-> Take(Drop(file, f.name_start), f.driver_name_len),
               slot |-> t] : t \in atoi_outcomes(Drop(file, f.slot_start))}

\* the parser is run on the file name of an identity
ParseName(name, slot_text) ==
    /\ pc = "start"
    /\ \E res \in ParseOutcomes(FormatName(name, slot_text)) :
          last' = [op |-> "parse", name |-> name, slot |-> slot_text, res |-> res]
    /\ UNCHANGED <<files, dir_exists, inotify, batch, pc, running, clients,
                   input_buffer, stdin, output, hist, env>>

\* The parser alone, on the file names of the identities above.
NextName == \E name \in DriverNames, slot_text \in SlotTexts : ParseName(name, slot_text)
SpecName == InitOne /\ [][NextName]_vars

\* C18: for every valid identity (name, slot), parsing
\* "<name>.<slot>.<SUFFIX>" succeeds and returns exactly (name, slot).
C18_NameRoundTrip ==
    last.op = "parse" =>
        /\ last.res.ok
        /\ last.res.name = last.name
        /\ last.res.slot = last.slot

----------------------------------------------------------------------------
\* Properties of the writes on one socket (spec 4.H, 5, 8 (c)).

\* lines the user may send in one run
MaxSends == 2

\* One endpoint whose driver announces its catalog and answers "ok" while
\* the user sends it `cmd a 11 get` and `cmd a 11 set 42`, in one read of
\* the input or in two.
LinesBurst == {LineGet, LineSet42}
NextBurst ==
    \/ shell_run_watch \/ shell_run_scan \/ scan_entry \/ shell_run_loop
    \/ Clients \/ Input
    \/ \E p \in Places : DrvInfo(p, InfoFrame(Catalog))
    \/ \E p \in Places : DrvReply(p, ResponseFrame(<<111, 107>>))
    \/ \E line \in LinesBurst : UserTypeUpTo(line, MaxSends)
SpecBurst == InitOne /\ [][NextBurst]_vars

\* no write job is posted
NoWriteJob == \A p \in Places : ~SdAt(p).usc.wjob

\* C15: for every send issued on a socket its completion callback is invoked
\* exactly once, also when another send is issued on the socket before the
\* first has completed: once no write job is left, writer has run as many
\* times as frames were handed to the send path, and never more often.
C15_EverySendCompletesOnce ==
    /\ hist.done <= Len(hist.handed)
    /\ NoWriteJob => hist.done = Len(hist.handed)

\* C16: writes on one socket are FIFO: once no write job is left, the socket
\* has been given every frame handed to the send path, completely and in
\* the order of the `cmd` lines.
C16_WritesAreFifo ==
    \A p \in Places :
        ~SdAt(p).usc.wjob => SdAt(p).usc.k_out = Flatten(hist.handed)

\* C17: the shell never pipelines requests: for each driver at most one
\* Command frame is sent and not yet answered.
C17_NoPipelining ==
    \A p \in Places :
        CountCommands(SdAt(p).usc.k_out) - SdAt(p).usc.d_replied <= 1

----------------------------------------------------------------------------
\* Properties of the assembly of input lines (spec 4.E).

\* reads of the input in one run
MaxFeeds == 3

\* the byte streams of the user: "help\n\nlist\nbo" and "bogus\nhelp\n"
Streams ==
    <<LineHelp \o <<10, 10>> \o LineList \o <<10, 98, 111>>,
      LineBogus \o <<10>> \o LineHelp \o <<10>>>>

\* the next n bytes of stream s arrive on the input
UserFeed(s, n) ==
    /\ pc = "idle" /\ env.chunks < MaxFeeds
    /\ env.stream \in {0, s}
    /\ env.fed + n <= Len(Streams[s])
    /\ stdin' = stdin \o SubSeq(Streams[s], env.fed + 1, env.fed + n)
    /\ env' = [env EXCEPT !.chunks = @ + 1, !.fed = @ + n, !.stream = s]
    /\ UNCHANGED <<files, dir_exists, inotify, batch, pc, running, clients,
                   input_buffer, output, last, hist>>

\* The input alone: a stream arrives in pieces of any sizes.
NextFeed ==
    \/ shell_run_watch \/ shell_run_scan \/ scan_entry \/ shell_run_loop
    \/ Input
    \/ \E s \in DOMAIN Streams : \E n \in 1..Len(Streams[s]) : UserFeed(s, n)
SpecFeed == InitOne /\ [][NextFeed]_vars

\* the bytes on_input has read so far
Arrived ==
    IF env.stream = 0 THEN <<>>
    ELSE Take(Streams[env.stream], env.fed - Len(stdin))

\* the newline-terminated lines of a byte stream, and the bytes after its
\* last newline
RECURSIVE LinesOf(_, _)
LinesOf(b, cur) ==
    IF b = <<>> THEN <<>>
    ELSE IF Head(b) = 10 THEN <<cur>> \o LinesOf(Tail(b), <<>>)
    ELSE LinesOf(Tail(b), Append(cur, Head(b)))
RECURSIVE TrailOf(_, _)
TrailOf(b, cur) ==
    IF b = <<>> THEN cur
    ELSE IF Head(b) = 10 THEN TrailOf(Tail(b), <<>>)
    ELSE TrailOf(Tail(b), Append(cur, Head(b)))

\* what the execution of a line of the streams prints
OutputOf(line) ==
    IF line = LineList
    THEN Flatten([i \in 1..Cardinality(Places) |->
            Block(SdAt(CHOOSE p \in Places : p[2] = i))]) \o PROMPT
    ELSE IF line = LineHelp THEN HELP_MSG \o PROMPT
    ELSE INVALID_MSG \o PROMPT

\* the output after the first k lines of the stream have been executed
OutputAfter(k) ==
    PROMPT \o Flatten([i \in 1..k |-> OutputOf(LinesOf(Arrived, <<>>)[i])])

\* C20: however the input stream is cut into reads, the commands executed
\* are the newline-terminated lines of the stream, in order and each once;
\* the bytes after the last newline wait in the buffer, which after each
\* on_input holds exactly them, with offset <= size.
C20_LinesIndependentOfChunking ==
    /\ last.op = "line" =>
          LET k == Len(LinesOf(Arrived, <<>>)) - Len(LinesOf(input_buffer.data, <<>>))
          IN  /\ k >= 1
              /\ last.line = LinesOf(Arrived, <<>>)[k]
              /\ output = OutputAfter(k)
    /\ pc = "idle" =>
          /\ output = OutputAfter(Len(LinesOf(Arrived, <<>>)))
          /\ input_buffer.data = TrailOf(Arrived, <<>>)
          /\ input_buffer.offset <= Len(input_buffer.data)

\* the first stream has arrived in three reads: its three lines have been
\* executed and "bo" waits for its newline
C20_Witness ==
    /\ pc = "idle" /\ last.op = "input_done" /\ stdin = <<>>
    /\ env.stream = 1 /\ env.fed = Len(Streams[1]) /\ env.chunks >= 3
    /\ input_buffer.data = <<98, 111>>
    /\ output = PROMPT \o HELP_MSG \o PROMPT \o INVALID_MSG \o PROMPT
                \o (IF Places = {} THEN <<>> ELSE Block(SdAt(<<48, 1>>))) \o PROMPT

----------------------------------------------------------------------------
\* Properties of the assembly of frames (spec 4.C, 4.H).

\* pieces the driver cuts its frames into in one run
MaxPieces == 4

\* what a driver sends in one run: its catalog, then the payload of its
\* answer to `cmd a 11 get`: "ok", "o" NUL "k", and no bytes at all
DrvStreams ==
    <<[cat |-> <<Catalog[1]>>, payload |-> <<111, 107>>],
      [cat |-> <<Catalog[1], Catalog[2]>>, payload |-> <<111, 0, 107>>],
      [cat |-> <<Catalog[1]>>, payload |-> <<>>]>>

\* the frames of stream s, and the bytes of them the driver has sent
FramesOf(s) == <<InfoFrame(DrvStreams[s].cat), ResponseFrame(DrvStreams[s].payload)>>
\* the frame the driver is sending: the one that holds byte env.fed + 1
FrameNow(s) == IF env.fed < Len(FramesOf(s)[1]) THEN 1 ELSE 2
LeftOfFrame(s) ==
    IF FrameNow(s) = 1 THEN Len(FramesOf(s)[1]) - env.fed
    ELSE Len(FramesOf(s)[1]) + Len(FramesOf(s)[2]) - env.fed

\* the sizes of the next piece: a few bytes, a command descriptor, or all
\* that is left of the frame
PieceSizes(left) == {n \in {1, 2, 3, 4, SIZEOF_COMMAND_INFO} : n < left} \cup {left}

\* the driver behind the socket of place p writes the next n bytes of its
\* stream s; it answers only a request it has received
DrvPiece(p, s, n) ==
    /\ pc = "idle" /\ env.drv < MaxPieces
    /\ SdAt(p).usc.peer = "open"
    /\ env.stream \in {0, s}
    /\ LeftOfFrame(s) > 0 /\ n \in PieceSizes(LeftOfFrame(s))
    /\ FrameNow(s) = 2 => CountCommands(SdAt(p).usc.k_out) > 0
    /\ clients' = SetSd(clients, p, [SdAt(p) EXCEPT !.usc.k_in =
            @ \o SubSeq(FramesOf(s)[1] \o FramesOf(s)[2], env.fed + 1, env.fed + n)])
    /\ env' = [env EXCEPT !.drv = @ + 1, !.fed = @ + n, !.stream = s]
    /\ UNCHANGED <<files, dir_exists, inotify, batch, pc, running,
                   input_buffer, stdin, output, last, hist>>

\* One endpoint whose driver sends its frames in pieces while the user
\* sends it `cmd a 11 get`.
NextFrag ==
    \/ shell_run_watch \/ shell_run_scan \/ scan_entry \/ shell_run_loop
    \/ Clients \/ Input
    \/ \E p \in Places, s \in DOMAIN DrvStreams :
          \E n \in PieceSizes(LeftOfFrame(s)) : DrvPiece(p, s, n)
    \/ \E line \in LineGetOnly : UserType(line)
SpecFrag == InitOne /\ [][NextFrag]_vars

\* the frame the client at p is receiving, by the signature in its buffer
FrameAt(p) ==
    IF At(SdAt(p).usc.rb.data, 0) = PR_DRV_INFO
    THEN FramesOf(env.stream)[1] ELSE FramesOf(env.stream)[2]

\* C21: a DRV_RESPONSE or DRV_INFO frame is acted on only once the buffer
\* holds the whole frame; while it is shorter the reader re-arms a read for
\* exactly the deficit; and the payload printed or the catalog installed is
\* what the driver sent, however the frame's bytes are split over the reads.
C21_FramesIndependentOfFragmentation ==
    (last.op = "read" /\ last.cond = "full") =>
        LET usc == SdAt(last.p).usc
        IN  /\ last.did = "response" =>
                /\ usc.rb.data = FramesOf(env.stream)[2]
                /\ last.out = DrvStreams[env.stream].payload \o NEW_LINE \o PROMPT
            /\ last.did = "info" =>
                /\ usc.rb.data = FramesOf(env.stream)[1]
                /\ Descriptors(SdAt(last.p).commands) = DrvStreams[env.stream].cat
            /\ last.did = "rearm" =>
                /\ Len(usc.rb.data) < Len(FrameAt(last.p))
                /\ usc.rb.data = Take(FrameAt(last.p), Len(usc.rb.data))
                /\ usc.rjob
                /\ usc.rb.user_size - usc.rb.offset
                     = Len(FrameAt(last.p)) - Len(usc.rb.data)
                /\ last.out = <<>>
                /\ last.reader = "reader_info" => SdAt(last.p).commands = <<>>

----------------------------------------------------------------------------
\* Properties of the receive codec (spec 4.H).

\* One endpoint whose driver sends its frames in pieces, closes its end or
\* breaks the connection while the user sends it `cmd a 11 get`.
NextRecv ==
    \/ NextFrag
    \/ \E p \in Places : DrvClose(p, "closed") \/ DrvClose(p, "reset")
SpecRecv == InitOne /\ [][NextRecv]_vars

\* this step is the read job of the client at p
ReadsAt(p) == last'.op = "read" /\ last'.p = p /\ clients' # clients /\ env' = env

\* C22: after a recv is armed with target count N, the reader is called with
\* eof = false and error = 0 only when exactly N bytes have been accepted
\* since arming, and never more than N are accepted; while fewer than N have
\* arrived and the socket would block, the read job stays registered and the
\* reader is not called; on zero pending bytes or a read of zero bytes eof is
\* set, the job is deregistered and the reader is called once.
C22_ReceiveCodec ==
    [][\A p \in Places : ReadsAt(p) =>
        LET usc    == SdAt(p).usc
            N      == usc.rb.user_size - usc.rb.offset
            before == Len(usc.rb.data) - usc.rb.offset
            after  == before + Min(N - before, Len(usc.k_in))
            seen   == last'.seen
            usc2   == SdIn(clients', p).usc
        IN  /\ seen.have = after /\ after <= N
            /\ usc.rb.offset + seen.have <= usc.rb.user_size
            /\ (seen.calls = 1 /\ ~seen.eof /\ seen.error = 0) => seen.have = N
            /\ (after < N /\ usc.k_in # <<>> /\ usc.peer = "open") =>
                  /\ seen.calls = 0
                  /\ usc2.rjob /\ usc2.reader = usc.reader
                  /\ usc2.rb.data = usc.rb.data \o Take(usc.k_in, after - before)
                  /\ output' = output
            /\ (usc.k_in = <<>> \/ (after < N /\ usc.peer = "closed")) =>
                  /\ seen.calls = 1 /\ seen.eof /\ seen.error = 0
                  /\ usc2.eof /\ ~usc2.rjob]_vars

\* the two bytes that follow the signature of an info frame have arrived in
\* two reads, and the reader has been called after the second
C22_Witness ==
    /\ last.op = "read" /\ last.reader = "reader_info" /\ last.did = "rearm"
    /\ last.need = SIZEOF_INFO - SIZEOF_SIGNATURE
    /\ last.seen = [calls |-> 1, eof |-> FALSE, error |-> 0, have |-> last.need]
    /\ SdAt(last.p).usc.rb.data = Take(InfoFrame(DrvStreams[env.stream].cat), SIZEOF_INFO)
    /\ env.drv >= 3

----------------------------------------------------------------------------
\* Properties of a driver's disappearance (spec 4.C, 4.D, 6).

\* the last handler step was a callback of the client at place p
CallbackRan(p) == last.op \in {"connector", "read", "write"} /\ last.p = p

\* C23: after the DELETED event for a driver has been processed (and until a
\* CREATED event for it is), no connector, reader or writer callback of that
\* driver's client runs: nothing is read, written, printed or installed for
\* the removed driver, even if a request to it was in flight.
C23_DeletedCancelsIo ==
    \A p \in Places : CallbackRan(p) => Ident(p) \notin hist.gone

----------------------------------------------------------------------------
\* Properties of the signature phase (spec 4.C, 6).

\* first bytes that are no signature of a frame the shell reads: DRV_COMMAND,
\* 3 and 255; each followed by a byte
BadFrames == {<<PR_DRV_COMMAND, 0>>, <<3, 0>>, <<255, 0>>}

\* One endpoint whose driver sends a wrong signature, on a fresh connection
\* or as its answer to `cmd a 11 get`, and whose socket file may vanish.
NextSig ==
    \/ Supervisor \/ Clients \/ Input
    \/ FsDelete(FileA)
    \/ \E p \in Places, frame \in BadFrames \cup {InfoFrame(Catalog)} :
          DrvInfo(p, frame) \/ DrvReply(p, frame)
    \/ \E line \in LineGetOnly : UserType(line)
SpecSig == InitOne /\ [][NextSig]_vars

\* this step is a read of the client at p in its signature phase, and the
\* byte it reads is neither DRV_INFO nor DRV_RESPONSE
ReadsBadSignature(p) ==
    /\ pc = "idle" /\ env' = env /\ last'.op = "read" /\ last'.p = p
    /\ clients' # clients
    /\ SdAt(p).usc.rjob /\ SdAt(p).usc.reader = "reader_signature"
    /\ SdAt(p).usc.k_in # <<>>
    /\ Head(SdAt(p).usc.k_in) \notin {PR_DRV_INFO, PR_DRV_RESPONSE}

\* C24: when the first byte read in a signature phase is neither DRV_INFO nor
\* DRV_RESPONSE, the client attempts a reconnect and the shell keeps running:
\* it does not abort, the record stays in the registry with its identity, also
\* when the reconnect fails; only a DELETED event removes a record.
C24_BadSignatureReconnects ==
    [][/\ \A p \in Places : ReadsBadSignature(p) =>
            /\ pc' = "idle" /\ running'
            /\ PlacesOf(clients') = Places
            /\ \A q \in Places : SdIn(clients', q).name = SdAt(q).name
                                 /\ SdIn(clients', q).slot = SdAt(q).slot
            /\ SdIn(clients', p).usc.conn \in {"connecting", "closed"}
            /\ SdIn(clients', p).usc.conn = "connecting" <=>
                    files[SdAt(p).usc.connected_to_name] = "sock"
            /\ SdIn(clients', p).usc.connected_to_name = SdAt(p).usc.connected_to_name
            /\ ~SdIn(clients', p).usc.rjob /\ ~SdIn(clients', p).usc.wjob
            /\ output' = output
       /\ (\E p \in Places : p \notin PlacesOf(clients')) =>
            (pc = "dir_loop" /\ Head(batch).mask = "IN_DELETE")]_vars

\* the driver has answered a command with a DRV_COMMAND frame after its socket
\* file was unlinked: the reconnect has failed and the record is still there
C24_Witness ==
    /\ last.op = "read" /\ last.did = "bad_signature"
    /\ last.p \in Places /\ Ident(last.p) = <<<<97>>, 11>>
    /\ SdAt(last.p).usc.conn = "closed"
    /\ SdAt(last.p).commands # <<>>
    /\ files[FileA] = "none" /\ inotify # <<>>
    /\ pc = "idle" /\ running
    /\ hist.owed = 1

----------------------------------------------------------------------------
\* Properties of the parsing of a batch of directory events (spec 4.D).

\* events in one batch
MaxBatch == 3

\* sizeof(struct inotify_event) and the bits of its mask
EVENT_HEADER == 16
IN_CREATE == 256
IN_DELETE == 512
IN_DELETE_SELF == 1024
IN_IGNORED == 32768
IN_ISDIR == 1073741824

\* mask & bit
HasBit(mask, bit) == (mask \div bit) % 2 = 1

\* the len the notifier reports for a name: the name and its NUL, padded to
\* a multiple of the header size; 0 for an event without name
PaddedLen(name) ==
    IF name = <<>> THEN 0
    ELSE ((Len(name) + 1 + EVENT_HEADER - 1) \div EVENT_HEADER) * EVENT_HEADER

\* struct inotify_event as the notifier writes it: wd, mask, cookie, len,
\* then the name padded with NULs
KernelEvent(ev) ==
    U32(1) \o U32(ev.mask) \o U32(0) \o U32(PaddedLen(ev.name))
    \o Pad(ev.name, PaddedLen(ev.name))
WireBatch(evs) == Flatten([i \in 1..Len(evs) |-> KernelEvent(evs[i])])

\* data[i], and 0 behind the end of the buffer
ByteAt(data, i) == IF i < Len(data) THEN At(data, i) ELSE 0
WordAt(data, i) ==
    ByteAt(data, i) + 256 * ByteAt(data, i + 1) + 65536 * ByteAt(data, i + 2)
    + 16777216 * ByteAt(data, i + 3)

\* the advance of the cursor by the normalized length
event_advance_by_strlen(raw_len, name_len) == EVENT_HEADER + name_len

\* the offset base_dir_single_event returns: the header and event->len as
\* the notifier reported it
event_advance(raw_len, name_len) == EVENT_HEADER + raw_len

\* base_dir_single_event(sh, base, _offset) on the bytes of a batch:
\* [offset, mask, name, len, calls], the handlers it calls in `calls`
single_event_at(data, _offset) ==
    LET mask     == WordAt(data, _offset + 4)
        raw_len  == WordAt(data, _offset + 12)
        name_at  == _offset + EVENT_HEADER
        name_len == IF raw_len # 0 /\ name_at < Len(data)
                    THEN strlen_from(data, name_at) - name_at ELSE 0
    IN  [offset |-> event_advance(raw_len, name_len),
         mask   |-> mask,
         name   |-> SubSeq(data, name_at + 1, name_at + name_len),
         len    |-> name_len,
         calls  |-> (IF HasBit(mask, IN_CREATE) THEN <<"created">> ELSE <<>>)
                    \o (IF HasBit(mask, IN_DELETE) THEN <<"deleted">> ELSE <<>>)
                    \o (IF HasBit(mask, IN_DELETE_SELF) THEN <<"self_deleted">> ELSE <<>>)]

\* the dispatch loop of base_dir_event: the events it visits, each with the
\* offset it was read at
RECURSIVE dispatch_from(_, _, _)
dispatch_from(data, offset, run) ==
    IF offset < Len(data) /\ run
    THEN LET r == single_event_at(data, offset)
         IN  <<[at |-> offset, mask |-> r.mask, name |-> r.name, len |-> r.len,
                calls |-> r.calls]>>
             \o dispatch_from(data, offset + r.offset,
                              ~HasBit(r.mask, IN_DELETE_SELF))
    ELSE <<>>

\* a file name of n bytes, "aaa...a.1.drv"
LongName(n) == Fill(n - 6, 97) \o <<46, 49, 46, 100, 114, 118>>

\* the events of the batches: a socket of 8, 15 and 16 name bytes created or
\* deleted, a directory "x" created, the base directory deleted, the watch
\* removed
BatchEvents ==
    {Event(IN_CREATE, FileA), Event(IN_DELETE, FileA),
     Event(IN_CREATE, LongName(15)), Event(IN_DELETE, LongName(16)),
     Event(IN_CREATE + IN_ISDIR, <<120>>),
     Event(IN_DELETE_SELF, <<>>), Event(IN_IGNORED, <<>>)}

RECURSIVE BatchesUpTo(_)
BatchesUpTo(n) ==
    IF n = 0 THEN {<<>>}
    ELSE LET shorter == BatchesUpTo(n - 1)
         IN  shorter \cup {Append(b, ev) : b \in shorter, ev \in BatchEvents}

\* base_dir_event reads a batch and dispatches it
ReadBatch(evs) ==
    /\ pc = "start" /\ last.op = "init" /\ evs # <<>>
    /\ last' = [op |-> "batch", events |-> evs,
                size |-> Len(WireBatch(evs)),
                visited |-> dispatch_from(WireBatch(evs), 0, TRUE)]
    /\ UNCHANGED <<files, dir_exists, inotify, batch, pc, running, clients,
                   input_buffer, stdin, output, hist, env>>

\* The parsing of a batch alone, on the batches above.
NextBatch == \E evs \in BatchesUpTo(MaxBatch) : ReadBatch(evs)
SpecBatch == InitOne /\ [][NextBatch]_vars

\* the events of a batch that are dispatched: all up to the first deletion of
\* the base directory
Dispatched(evs) ==
    LET stop == FirstOf({i \in 1..Len(evs) : evs[i].mask = IN_DELETE_SELF})
    IN  IF stop = 0 THEN evs ELSE Take(evs, stop)

\* the offset of the i-th event in the bytes of the batch
OffsetOf(evs, i) == Len(WireBatch(Take(evs, i - 1)))

\* the handler an event is for
HandlerOf(mask) ==
    IF mask \in {IN_CREATE, IN_CREATE + IN_ISDIR} THEN <<"created">>
    ELSE IF mask = IN_DELETE THEN <<"deleted">>
    ELSE IF mask = IN_DELETE_SELF THEN <<"self_deleted">>
    ELSE <<>>

\* C25: every event of a batch is dispatched exactly once and in delivery
\* order: the cursor advances by the header size plus the length the notifier
\* reported, the handlers get the name with its NUL-terminated length, and no
\* event is skipped, read again or read at a wrong offset.
C25_BatchDispatchedInOrder ==
    last.op = "batch" =>
        LET evs == Dispatched(last.events)
        IN  /\ Len(last.visited) = Len(evs)
            /\ \A i \in 1..Len(evs) :
                  /\ last.visited[i].at = OffsetOf(last.events, i)
                  /\ last.visited[i].mask = evs[i].mask
                  /\ last.visited[i].name = evs[i].name
                  /\ last.visited[i].len = Len(evs[i].name)
                  /\ last.visited[i].calls = HandlerOf(evs[i].mask)
            /\ evs = last.events =>
                  \/ last.visited = <<>>
                  \/ LET v == last.visited[Len(last.visited)]
                     IN  v.at + EVENT_HEADER + PaddedLen(v.name) = last.size

\* a batch of three events whose names are padded by 8, 1 and 16 bytes
C25_Witness ==
    /\ last.op = "batch"
    /\ last.events = <<Event(IN_CREATE, FileA), Event(IN_CREATE, LongName(15)),
                       Event(IN_DELETE, LongName(16))>>
    /\ Len(last.visited) = 3
    /\ last.visited[3] = [at |-> 64, mask |-> IN_DELETE, name |-> LongName(16),
                          len |-> 16, calls |-> <<"deleted">>]
    /\ last.size = 112

----------------------------------------------------------------------------
\* Properties of directory events that concern no endpoint (spec 4.D, 6).

\* names that fail the endpoint grammar: "a.11.drw", ".11.drv", "a.x1.drv",
\* "a.11.drvx", "a11drv"
OddNames ==
    {<<97, 46, 49, 49, 46, 100, 114, 119>>,
     <<46, 49, 49, 46, 100, 114, 118>>,
     <<97, 46, 120, 49, 46, 100, 114, 118>>,
     <<97, 46, 49, 49, 46, 100, 114, 118, 120>>,
     <<97, 49, 49, 100, 114, 118>>}

\* the shell starts in a base directory with the socket "a.11.drv" or
\* without, which may get entries of these names and of the names of endpoints
InitOdd ==
    /\ files \in {[name \in FileNames \cup OddNames |->
                        IF name = FileA THEN t ELSE "none"] : t \in {"none", "sock"}}
    /\ dir_exists = TRUE
    /\ inotify = <<>>
    /\ batch = <<>>
    /\ pc = "start"
    /\ running = FALSE
    /\ clients = <<>>
    /\ input_buffer = [data |-> <<>>, offset |-> 0]
    /\ stdin = <<>>
    /\ output = <<>>
    /\ last = [op |-> "init"]
    /\ hist = [owed |-> 0, gone |-> {}, handed |-> <<>>, done |-> 0]
    /\ env = [fs |-> 0, chunks |-> 0, drv |-> 0, fed |-> 0, stream |-> 0]

\* Sockets and files of good and bad names come and go in the base directory.
NextOdd ==
    \/ Supervisor
    \/ \E p \in Places : connect_done(p)
    \/ \E name \in OddNames \cup FileNames, type \in {"sock", "file"} :
          FsCreate(name, type)
    \/ \E name \in OddNames \cup FileNames : FsDelete(name)
SpecOdd == InitOdd /\ [][NextOdd]_vars

\* "<name>.<slot>.<SUFFIX>": a non-empty name without '.', a non-empty run of
\* digits, the suffix; Split(f) is the set of the places of its two dots
Split(f) ==
    {d \in (1..Len(f)) \X (1..Len(f)) :
        /\ 1 < d[1] /\ d[1] + 1 < d[2]
        /\ f[d[1]] = 46 /\ f[d[2]] = 46
        /\ \A k \in 1..d[1] - 1 : f[k] \notin {46, 47}
        /\ \A k \in d[1] + 1..d[2] - 1 : isdigit(f[k])
        /\ Drop(f, d[2]) = SUFFIX}
WellNamed(f) == Split(f) # {}
\* the identity such a name spells
IdentOf(f) ==
    LET d == CHOOSE d \in Split(f) : TRUE
    IN  <<Take(f, d[1] - 1), DigitsValue(SubSeq(f, d[1] + 1, d[2] - 1), 0, 0)>>

\* the event the directory supervisor is about to dispatch concerns no
\* endpoint that is or can be registered
ConcernsNoEndpoint(ev) ==
    \/ /\ ev.mask = "IN_CREATE"
       /\ files[ev.name] # "sock" \/ ~WellNamed(ev.name)
    \/ /\ ev.mask = "IN_DELETE"
       /\ ~WellNamed(ev.name) \/ RecordsOf(IdentOf(ev.name)) = {}

\* this step dispatches the first event of the batch
DispatchesEvent == pc = "dir_loop" /\ batch # <<>> /\ batch' = Tail(batch)

\* C26: a CREATED event for an entry that is no socket (or is gone) or whose
\* name fails the endpoint grammar, and a DELETED event whose name fails the
\* grammar or whose identity is not registered, leave the registry and all
\* clients unchanged and do not stop the shell.
C26_ForeignEventsChangeNothing ==
    [][(DispatchesEvent /\ ConcernsNoEndpoint(Head(batch))) =>
        /\ clients' = clients
        /\ running' /\ pc' = (IF Tail(batch) = <<>> THEN "idle" ELSE "dir_loop")
        /\ output' = output]_vars

\* a regular file "a1.1.drv" was created and deleted: its DELETED event has
\* been dispatched while the bucket of its identity held the record of
\* "a.11.drv" only, which is still there
C26_Witness ==
    /\ last.op = "deleted" /\ last.name = FileB /\ last.res = "not_registered"
    /\ Places # {} /\ \A p \in Places : Ident(p) = <<<<97>>, 11>>
    /\ pc = "idle" /\ running
    /\ env.fs = 2

----------------------------------------------------------------------------
\* Properties of the parser on names with a path (spec 4.A).

\* the paths in front of a file name: "d", "d/e", "." and "" (the root)
Paths == {<<100>>, <<100, 47, 101>>, <<46>>, <<>>}

\* the parser is run on "<path>/<name>.<slot>.<SUFFIX>"; the name may be empty
ParsePath(path, name, slot_text) ==
    /\ pc = "start" /\ last.op = "init"
    /\ \E res \in ParseOutcomes(path \o <<47>> \o FormatName(name, slot_text)) :
          last' = [op |-> "parse_path", path |-> path, name |-> name,
                   slot |-> slot_text, res |-> res]
    /\ UNCHANGED <<files, dir_exists, inotify, batch, pc, running, clients,
                   input_buffer, stdin, output, hist, env>>

\* The parser alone, on names with a path.
NextPath ==
    \E path \in Paths, name \in DriverNames \cup {<<>>}, slot_text \in {<<49>>, <<49, 49>>} :
        ParsePath(path, name, slot_text)
SpecPath == InitOne /\ [][NextPath]_vars

\* C27: the parser strips everything up to and including the last '/': for
\* "<path>/<name>.<slot>.<SUFFIX>" the driver name returned is exactly <name>
\* and holds no '/', and "<path>/.<slot>.<SUFFIX>" is rejected.
C27_PathIsStripped ==
    last.op = "parse_path" =>
        IF last.name = <<>> THEN ~last.res.ok
        ELSE /\ last.res.ok
             /\ last.res.name = last.name
             /\ \A i \in 1..Len(last.res.name) : last.res.name[i] # 47
             /\ last.res.slot = last.slot

----------------------------------------------------------------------------
\* Properties of the start of the shell (spec 4.D, 5).

\* The directory supervisor under a changing base directory, with a reactor
\* that runs shell_run and every ready handler of the supervisor in the end.
\* The reactor is one thread that runs every handler that is ready, so no
\* handler of the supervisor stays ready for ever without running. In
\* NextDir the supervisor alone moves pc and consumes batch, hence its
\* steps are told by these two variables: SupervisorMoves is what
\* shell_run_watch, shell_run_scan, shell_run_loop and base_dir_event do to
\* pc, SupervisorConsumes what scan_entry and base_dir_single_event do to
\* batch.
SupervisorMoves ==
    \/ pc = "start" /\ pc' = "scan"
    \/ pc = "scan" /\ pc' = "scan_loop"
    \/ pc = "scan_loop" /\ batch = <<>> /\ pc' = "idle"
    \/ pc = "idle" /\ inotify # <<>> /\ pc' = "dir_loop"

SupervisorConsumes ==
    \/ pc = "scan_loop" /\ batch # <<>> /\ batch' = Tail(batch)
    \/ pc = "dir_loop" /\ batch # <<>> /\ running /\ batch' \in {Tail(batch), <<>>}

\* the two projections are exactly the steps of the handlers they stand for
MovesAreHandlers ==
    [][(SupervisorMoves /\ pc' # pc)
          <=> (shell_run_watch \/ shell_run_scan \/ shell_run_loop \/ base_dir_event)]_vars

ConsumesAreHandlers ==
    [][(SupervisorConsumes /\ batch' # batch)
          <=> (scan_entry \/ base_dir_single_event)]_vars

SpecDirFair ==
    /\ Init /\ [][NextDir]_vars
    /\ WF_pc(SupervisorMoves) /\ WF_batch(SupervisorConsumes)

\* the socket file f is represented by a record of its identity
Represented(f) == \E p \in Places : Ident(p) = IdentOf(f)

\* C28: no endpoint creation is lost at startup: every well-named socket that
\* exists at the scan or is created later, and is not deleted again, is in
\* the end represented by a registry record; it is whenever the shell waits
\* with no directory event pending.
C28_NoCreationIsLost ==
    /\ \A f \in FileNames :
          (files[f] = "sock" /\ WellNamed(f)) ~> (Represented(f) \/ files[f] # "sock")
    /\ [](\A f \in FileNames :
            (pc = "idle" /\ inotify = <<>> /\ files[f] = "sock" /\ WellNamed(f))
                => Represented(f))

\* both sockets are registered and nothing is pending, one of them created
\* after the watch was installed and reported by the notifier
C28_Witness ==
    /\ pc = "idle" /\ inotify = <<>> /\ batch = <<>>
    /\ \A f \in FileNames : files[f] = "sock" /\ Represented(f)
    /\ env.fs >= 1
    /\ last.op = "created" /\ last.res = "inserted"

----------------------------------------------------------------------------
\* C29. Two file names of the base directory and the identities they parse to.

\* slot spellings with and without leading zeros: 0, 00, 1, 01, 001, 11, 011
ZeroSlotTexts ==
    {<<48>>, <<48, 48>>, <<49>>, <<48, 49>>, <<48, 48, 49>>, <<49, 49>>,
     <<48, 49, 49>>}

\* the file names "<name>.<slot>.<SUFFIX>" of the one-byte driver names
PairFiles ==
    {FormatName(name, slot_text) :
        name \in {n \in DriverNames : Len(n) = 1}, slot_text \in ZeroSlotTexts}

\* the parser is run on two file names of the same directory
ParsePair(f, g) ==
    /\ pc = "start" /\ last.op = "init"
    /\ f # g
    /\ \E rf \in ParseOutcomes(f), rg \in ParseOutcomes(g) :
          last' = [op |-> "parse2", f |-> f, g |-> g, rf |-> rf, rg |-> rg]
    /\ UNCHANGED <<files, dir_exists, inotify, batch, pc, running, clients,
                   input_buffer, stdin, output, hist, env>>

NextPair == \E f \in PairFiles, g \in PairFiles : ParsePair(f, g)
SpecPair == InitOne /\ [][NextPair]_vars

\* C29: two distinct file names that both pass the parser never parse to the
\* same (driver name, slot).
C29_ParseIsInjective ==
    (last.op = "parse2" /\ last.f # last.g /\ last.rf.ok /\ last.rg.ok)
        => <<last.rf.name, last.rf.slot>> # <<last.rg.name, last.rg.slot>>

====
